---- MODULE Spec2Model ----
(***************************************************************************)
(* Verification model of the security core of glabs-rust-libraries:       *)
(*   - src/src/ciphers.rs   (Cipher: XSalsa20Poly1305 under two keys)      *)
(*   - src/src/paseto.rs    (Paseto: access / refresh / web tokens)        *)
(*   - src/src/guards/middlewares.rs (GuardMiddleware::call)               *)
(*                                                                         *)
(* Strings and byte vectors are sequences of byte values 0..255.  A call   *)
(* ends in one of three outcomes: Ok(value), Err(message) or a panic.      *)
(***************************************************************************)
EXTENDS Integers, Sequences, FiniteSets, Bags, TLC

(***************************************************************************)
(* Outcomes of a call                                                      *)
(***************************************************************************)
Ok(v) == [kind |-> "ok", val |-> v, err |-> ""]

Err(m) == [kind |-> "err", val |-> <<>>, err |-> m]

Panic == [kind |-> "panic", val |-> <<>>, err |-> ""]

NoCall == [kind |-> "none", val |-> <<>>, err |-> ""]

Rep(b, n) == [i \in 1..n |-> b]

At(seq, i) == IF i <= Len(seq) THEN seq[i] ELSE 0

(***************************************************************************)
(* base64_url::encode / base64_url::decode (URL-safe alphabet, no padding) *)
(***************************************************************************)
B64Char(s) ==
    IF s < 26 THEN 65 + s
    ELSE IF s < 52 THEN 97 + (s - 26)
    ELSE IF s < 62 THEN 48 + (s - 52)
    ELSE IF s = 62 THEN 45
    ELSE 95

B64Val(c) ==
    IF c >= 65 /\ c <= 90 THEN c - 65
    ELSE IF c >= 97 /\ c <= 122 THEN c - 97 + 26
    ELSE IF c >= 48 /\ c <= 57 THEN c - 48 + 52
    ELSE IF c = 45 THEN 62
    ELSE IF c = 95 THEN 63
    ELSE -1

\* The j-th sextet of a 24-bit group w, j in 0..3.
Sextet(w, j) ==
    IF j = 0 THEN w \div 262144
    ELSE IF j = 1 THEN (w \div 4096) % 64
    ELSE IF j = 2 THEN (w \div 64) % 64
    ELSE w % 64

\* The j-th octet of a 24-bit group w, j in 0..2.
Octet(w, j) ==
    IF j = 0 THEN w \div 65536
    ELSE IF j = 1 THEN (w \div 256) % 256
    ELSE w % 256

\* Every 3 bytes give 4 characters; a final group of 1 or 2 bytes gives 2 or
\* 3 characters, its unused low bits zero.
B64Encode(bytes) ==
    [j \in 1..((Len(bytes) * 4 + 2) \div 3) |->
        LET g == 3 * ((j - 1) \div 4)
            w == At(bytes, g + 1) * 65536 + At(bytes, g + 2) * 256 + At(bytes, g + 3)
        IN  B64Char(Sextet(w, (j - 1) % 4))]

B64DecodeBytes(text) ==
    [j \in 1..((Len(text) * 3) \div 4) |->
        LET g == 4 * ((j - 1) \div 3)
            v(k) == IF k <= Len(text) THEN B64Val(text[k]) ELSE 0
            w == v(g + 1) * 262144 + v(g + 2) * 4096 + v(g + 3) * 64 + v(g + 4)
        IN  Octet(w, (j - 1) % 3)]

\* The trailing bits that a final partial group leaves unused must be zero.
B64TrailingOk(text) ==
    LET r == Len(text) % 4 IN
    IF r = 2 THEN B64Val(text[Len(text)]) % 16 = 0
    ELSE IF r = 3 THEN B64Val(text[Len(text)]) % 4 = 0
    ELSE TRUE

B64Valid(text) ==
    /\ \A i \in 1..Len(text) : B64Val(text[i]) >= 0
    /\ Len(text) % 4 # 1
    /\ B64TrailingOk(text)

B64Decode(text) ==
    IF B64Valid(text) THEN Ok(B64DecodeBytes(text)) ELSE Err("decode")

(***************************************************************************)
(* String::from_utf8_lossy: well-formed UTF-8 sequences are kept; a        *)
(* maximal ill-formed prefix (at least one byte) becomes U+FFFD (EF BF BD).*)
(***************************************************************************)
Utf8Width(b) ==
    IF b < 128 THEN 1
    ELSE IF b >= 194 /\ b <= 223 THEN 2
    ELSE IF b >= 224 /\ b <= 239 THEN 3
    ELSE IF b >= 240 /\ b <= 244 THEN 4
    ELSE 0

Utf8Cont(b) == b >= 128 /\ b <= 191

\* The second byte of a sequence, narrowed for the lead bytes E0, ED, F0, F4.
Utf8SecondOk(b0, b1) ==
    IF b0 = 224 THEN b1 >= 160 /\ b1 <= 191
    ELSE IF b0 = 237 THEN b1 >= 128 /\ b1 <= 159
    ELSE IF b0 = 240 THEN b1 >= 144 /\ b1 <= 191
    ELSE IF b0 = 244 THEN b1 >= 128 /\ b1 <= 143
    ELSE Utf8Cont(b1)

\* How many bytes from position i on are a prefix of a well-formed sequence.
Utf8Matched(bytes, i) ==
    IF Utf8Width(bytes[i]) <= 1 THEN Utf8Width(bytes[i])
    ELSE IF ~(i + 1 <= Len(bytes) /\ Utf8SecondOk(bytes[i], bytes[i + 1])) THEN 1
    ELSE IF Utf8Width(bytes[i]) = 2 THEN 2
    ELSE IF ~(i + 2 <= Len(bytes) /\ Utf8Cont(bytes[i + 2])) THEN 2
    ELSE IF Utf8Width(bytes[i]) = 3 THEN 3
    ELSE IF ~(i + 3 <= Len(bytes) /\ Utf8Cont(bytes[i + 3])) THEN 3
    ELSE 4

RECURSIVE LossyFrom(_, _)
LossyFrom(bytes, i) ==
    IF i > Len(bytes) THEN <<>>
    ELSE IF Utf8Matched(bytes, i) = Utf8Width(bytes[i]) /\ Utf8Width(bytes[i]) > 0
         THEN SubSeq(bytes, i, i + Utf8Width(bytes[i]) - 1)
              \o LossyFrom(bytes, i + Utf8Width(bytes[i]))
         ELSE << 239, 191, 189 >>
              \o LossyFrom(bytes, i + (IF Utf8Matched(bytes, i) = 0 THEN 1
                                        ELSE Utf8Matched(bytes, i)))

FromUtf8Lossy(bytes) == LossyFrom(bytes, 1)

(***************************************************************************)
(* XSalsa20Poly1305: a stream cipher keyed by (key, nonce) and a one-time  *)
(* authenticator, a keyed weighted sum over (key, nonce, ciphertext)       *)
(* modulo a prime.  The sealed box is tag(16) || ciphertext.               *)
(***************************************************************************)
KeyLen == 32

NonceLen == 24

TagLen == 16

\* Sum over the positions i of (bytes[i] + 1) * weight(i), modulo the prime
\* 32749; weight(i) = (r * i + s) % 251 + 1 is never a multiple of it.
\* (BagCardinality adds up the values of a function with positive values.)
PolyHash(bytes, r, s) ==
    BagCardinality([i \in 1..Len(bytes) |->
                       (bytes[i] + 1) * (((r * i + s) % 251) + 1)]) % 32749

KeyStream(base, i) == (base + (base \div 256) + 17 * i) % 256

StreamWith(base, bytes, sign) ==
    [i \in 1..Len(bytes) |-> (bytes[i] + sign * KeyStream(base, i) + 256) % 256]

\* sign = 1 adds the key stream (seal), sign = -1 removes it (open).
StreamXor(key, nonce, bytes, sign) ==
    StreamWith(PolyHash(key \o nonce, 7, 3), bytes, sign)

TagBytes(h1, h2, h3) ==
    << h1 % 256, h1 \div 256, h2 % 256, h2 \div 256, h3 % 256, h3 \div 256 >>
    \o Rep(0, TagLen - 6)

TagOf(data) ==
    TagBytes(PolyHash(data, 1, 0), PolyHash(data, 5, 11), PolyHash(data, 13, 2))

AuthTag(key, nonce, ct) == TagOf(key \o nonce \o << Len(ct) % 256 >> \o ct)

SealBox(key, nonce, ct) == Ok(AuthTag(key, nonce, ct) \o ct)

\* XSalsa20Poly1305::new(GenericArray::from_slice(key)).encrypt(nonce, pt)
AeadEncrypt(key, nonce, pt) == SealBox(key, nonce, StreamXor(key, nonce, pt, 1))

\* Faulty variant: opens the box without comparing the tag.
OpenBoxUnchecked(key, nonce, tag, ct) == Ok(StreamXor(key, nonce, ct, -1))

OpenBox(key, nonce, tag, ct) ==
    IF tag = AuthTag(key, nonce, ct)
    THEN Ok(StreamXor(key, nonce, ct, -1))
    ELSE Err("aead")

\* XSalsa20Poly1305 decrypt(nonce, message)
AeadDecrypt(key, nonce, message) ==
    IF Len(message) < TagLen THEN Err("aead")
    ELSE OpenBox(key, nonce, SubSeq(message, 1, TagLen),
                 SubSeq(message, TagLen + 1, Len(message)))

(***************************************************************************)
(* Cipher (src/src/ciphers.rs)                                             *)
(***************************************************************************)
None == [some |-> FALSE, v |-> <<>>]

Some(x) == [some |-> TRUE, v |-> x]

\* Cipher::default()
CipherDefault == [master |-> None, web |-> None]

\* Outcome kind of Cipher::new() under the environment e.  from_slice
\* asserts that the decoded key has exactly KeyLen bytes.
CipherNewOutcome(e) ==
    IF ~e.MASTER_KEY.some THEN Err("Master key is missing")
    ELSE IF B64Decode(e.MASTER_KEY.v).kind # "ok" THEN Err("Invalid master key")
    ELSE IF ~e.WEB_KEY.some THEN Err("Web key is missing")
    ELSE IF B64Decode(e.WEB_KEY.v).kind # "ok" THEN Err("Invalid web key")
    ELSE IF Len(B64Decode(e.MASTER_KEY.v).val) # KeyLen THEN Panic
    ELSE IF Len(B64Decode(e.WEB_KEY.v).val) # KeyLen THEN Panic
    ELSE Ok(<<>>)

\* The Cipher that Cipher::new() returns when its outcome is Ok.
CipherNewValue(e) ==
    [master |-> Some(B64Decode(e.MASTER_KEY.v).val),
     web |-> Some(B64Decode(e.WEB_KEY.v).val)]

\* Faulty variant: the nonce is not prepended to the sealed box.
complete_encryption_without_nonce(nonce, result) ==
    IF result.kind = "ok" THEN Ok(B64Encode(result.val))
    ELSE Err("Encryption failed")

complete_encryption(nonce, result) ==
    IF result.kind = "ok" THEN Ok(B64Encode(nonce \o result.val))
    ELSE Err("Encryption failed")

encrypt_with(slot, str, nonce) ==
    IF ~slot.some THEN Err("Cipher failed to initialize")
    ELSE complete_encryption(nonce, AeadEncrypt(slot.v, nonce, str))

encrypt_master(c, str, nonce) == encrypt_with(c.master, str, nonce)

encrypt_web(c, str, nonce) == encrypt_with(c.web, str, nonce)

EncryptHashDecoded(content, d, nonce) ==
    IF d.kind # "ok" THEN Err("Unable to decode base64 encoding")
    ELSE IF Len(d.val) # KeyLen THEN Panic
    ELSE complete_encryption(nonce, AeadEncrypt(d.val, nonce, content))

encrypt_hash(content, hash, nonce) ==
    EncryptHashDecoded(content, B64Decode(hash), nonce)

\* The outcome of the AEAD open, mapped as decrypt_master / decrypt_web do.
UnsealedText(unsealed) ==
    IF unsealed.kind # "ok" THEN Err("Unable to decrypt text")
    ELSE Ok(FromUtf8Lossy(unsealed.val))

\* The shared body of decrypt_master / decrypt_web after the decode: length
\* check, split at NonceLen, unwrap of the key slot, open, from_utf8_lossy.
DecryptDecoded(slot, d) ==
    IF d.kind # "ok" THEN Err("Unable to decode base64 encoding")
    ELSE IF Len(d.val) < NonceLen + 1 THEN Err("Invalid hash length")
    ELSE IF ~slot.some THEN Panic
    ELSE UnsealedText(AeadDecrypt(slot.v, SubSeq(d.val, 1, NonceLen),
                                  SubSeq(d.val, NonceLen + 1, Len(d.val))))

decrypt_with(slot, str) == DecryptDecoded(slot, B64Decode(str))

decrypt_master(c, str) == decrypt_with(c.master, str)

decrypt_web(c, str) == decrypt_with(c.web, str)

UnsealedBytes(unsealed) ==
    IF unsealed.kind # "ok" THEN Err("Unable to decrypt text")
    ELSE Ok(unsealed.val)

DecryptHashContent(key, d) ==
    IF d.kind # "ok" THEN Err("Unable to decrypt text")
    ELSE IF Len(d.val) <= NonceLen THEN Err("Invalid hash length")
    ELSE UnsealedBytes(AeadDecrypt(key, SubSeq(d.val, 1, NonceLen),
                                   SubSeq(d.val, NonceLen + 1, Len(d.val))))

\* hash and content are Strings: from_utf8_lossy leaves their bytes as they
\* are before the decode.
DecryptHashDecoded(content, h) ==
    IF h.kind # "ok" THEN Err("Unable to decode base64 encoding")
    ELSE IF Len(h.val) # KeyLen THEN Panic
    ELSE DecryptHashContent(h.val, B64Decode(content))

decrypt_hash(content, hash) == DecryptHashDecoded(content, B64Decode(hash))

\* Faulty variant: the recovered key text is used without the decode step.
DeepUnsealedUndecoded(content, unsealed) ==
    IF unsealed.kind # "ok" THEN Err("Unable to decrypt text")
    ELSE decrypt_hash(content, B64Encode(unsealed.val))

\* decrypt_deep_hash after the wrapped hash was opened under the master key:
\* the recovered text is decoded and re-encoded, then decrypt_hash runs.
DeepRecovered(content, k) ==
    IF k.kind # "ok" THEN Err("Unable to decrypt text")
    ELSE decrypt_hash(content, B64Encode(k.val))

DeepUnsealed(content, unsealed) ==
    IF unsealed.kind # "ok" THEN Err("Unable to decrypt text")
    ELSE DeepRecovered(content, B64Decode(unsealed.val))

DeepDecoded(c, content, h) ==
    IF h.kind # "ok" THEN Err("Unable to decode base64 encoding")
    ELSE IF Len(h.val) <= NonceLen THEN Err("Invalid hash length")
    ELSE IF ~c.master.some THEN Panic
    ELSE DeepUnsealed(content, AeadDecrypt(c.master.v, SubSeq(h.val, 1, NonceLen),
                                           SubSeq(h.val, NonceLen + 1, Len(h.val))))

decrypt_deep_hash(c, content, hash) == DeepDecoded(c, content, B64Decode(hash))

\* ciphers::generate(): base64url text of KeyLen random bytes.
generate(bytes) == B64Encode(bytes)

(***************************************************************************)
(* chrono: instants and durations count ticks, TicksPerSecond ticks to the *)
(* second.  A DateTime reaches about DaysToMax days either side of today,  *)
(* so an i32 count of seconds, minutes or hours always fits and a count of *)
(* days may not.                                                           *)
(***************************************************************************)
TicksPerSecond == 2

DaysToMax == 95000000

DayTicks == 86400 * TicksPerSecond

seconds(n) == [count |-> n, per |-> TicksPerSecond]

minutes(n) == [count |-> n, per |-> 60 * TicksPerSecond]

hours(n) == [count |-> n, per |-> 3600 * TicksPerSecond]

days(n) == [count |-> n, per |-> DayTicks]

checked_add_signed(t, d) ==
    IF d.per = DayTicks /\ (d.count > DaysToMax \/ d.count < 0 - DaysToMax)
    THEN [some |-> FALSE, v |-> 0]
    ELSE [some |-> TRUE, v |-> t + d.count * d.per]

(***************************************************************************)
(* serde_json on a claims type C = u32: the Value is a number, its text    *)
(* the decimal digits.                                                     *)
(***************************************************************************)
to_value(claims) == [t |-> "number", n |-> claims]

JsonNull == [t |-> "null", n |-> 0]

from_value(v) == IF v.t = "number" THEN Ok(v.n) ELSE Err("invalid type")

RECURSIVE DecimalBytes(_)
DecimalBytes(n) ==
    IF n < 10 THEN << 48 + n >> ELSE DecimalBytes(n \div 10) \o << 48 + (n % 10) >>

\* Value::to_string()
to_string(v) == IF v.t = "number" THEN DecimalBytes(v.n) ELSE << 110, 117, 108, 108 >>

IsDigit(b) == b >= 48 /\ b <= 57

RECURSIVE DecimalValue(_, _)
DecimalValue(text, k) ==
    IF k = 0 THEN 0 ELSE DecimalValue(text, k - 1) * 10 + (text[k] - 48)

\* serde_json::from_str::<u32>: digits only, no leading zero, at most 9 here.
from_str(text) ==
    IF /\ Len(text) >= 1 /\ Len(text) <= 9
       /\ \A i \in 1..Len(text) : IsDigit(text[i])
       /\ (Len(text) > 1 => text[1] # 48)
    THEN Ok(DecimalValue(text, Len(text)))
    ELSE Err("invalid json")

IsSpace(b) == b \in { 9, 10, 11, 12, 13, 32 }

\* str::trim
trim(text) ==
    LET keep == { i \in 1..Len(text) : ~IsSpace(text[i]) } IN
    IF keep = {} THEN <<>>
    ELSE SubSeq(text, CHOOSE i \in keep : \A j \in keep : i <= j,
                      CHOOSE i \in keep : \A j \in keep : i >= j)

LowerChar(c) ==
    IF \E k \in 1..26 : SubSeq("ABCDEFGHIJKLMNOPQRSTUVWXYZ", k, k) = c
    THEN LET k == CHOOSE k \in 1..26 : SubSeq("ABCDEFGHIJKLMNOPQRSTUVWXYZ", k, k) = c
         IN  SubSeq("abcdefghijklmnopqrstuvwxyz", k, k)
    ELSE c

RECURSIVE to_lowercase(_)
to_lowercase(str) ==
    IF Len(str) = 0 THEN ""
    ELSE LowerChar(SubSeq(str, 1, 1)) \o to_lowercase(SubSeq(str, 2, Len(str)))

(***************************************************************************)
(* paseto crate, v2.local tokens.  The sealed claims open only under the   *)
(* key they were sealed with; the footer travels in the clear and is       *)
(* compared before the claims are opened.                                  *)
(***************************************************************************)
NoClaims == [exp |-> 0, sub |-> "", data |-> JsonNull]

\* A string that is not a v2.local token.
NotPaseto == [header |-> "", key |-> <<>>, footer |-> "", claims |-> NoClaims]

\* PasetoBuilder ... build(): the key must have KeyLen bytes.
PasetoBuild(key, exp, sub, footer, data) ==
    IF Len(key) # KeyLen THEN Err("invalid key")
    ELSE Ok([header |-> "v2.local", key |-> key, footer |-> footer,
             claims |-> [exp |-> exp, sub |-> sub, data |-> data]])

ExpiredError == "This token is expired (EXP claim)."

\* Faulty variant: the footer is not compared.
validate_local_token_any_footer(token, footer, key, at) ==
    IF token.header # "v2.local" THEN Err("invalid token")
    ELSE IF Len(key) # KeyLen \/ token.key # key THEN Err("failed to decrypt")
    ELSE IF token.claims.exp < at THEN Err(ExpiredError)
    ELSE Ok(token.claims)

\* Faulty variant: the expiry is not checked.
validate_local_token_any_time(token, footer, key, at) ==
    IF token.header # "v2.local" THEN Err("invalid token")
    ELSE IF token.footer # footer THEN Err("invalid footer")
    ELSE IF Len(key) # KeyLen \/ token.key # key THEN Err("failed to decrypt")
    ELSE Ok(token.claims)

\* Faulty variant: the token is rejected as expired at the tick after its
\* expiry only.
validate_local_token_first_tick(token, footer, key, at) ==
    IF token.header # "v2.local" THEN Err("invalid token")
    ELSE IF token.footer # footer THEN Err("invalid footer")
    ELSE IF Len(key) # KeyLen \/ token.key # key THEN Err("failed to decrypt")
    ELSE IF token.claims.exp + 1 = at THEN Err(ExpiredError)
    ELSE Ok(token.claims)

\* validate_local_token(token, Some(footer), key, TimeBackend::Chrono) at
\* the instant at.
validate_local_token(token, footer, key, at) ==
    IF token.header # "v2.local" THEN Err("invalid token")
    ELSE IF token.footer # footer THEN Err("invalid footer")
    ELSE IF Len(key) # KeyLen \/ token.key # key THEN Err("failed to decrypt")
    ELSE IF token.claims.exp < at THEN Err(ExpiredError)
    ELSE Ok(token.claims)

(***************************************************************************)
(* Paseto (src/src/paseto.rs)                                              *)
(***************************************************************************)
PasetoDefault ==
    [app_name |-> "",
     access_token_key_unit |-> 0, access_token_key_time |-> "",
     access_token_key_signing |-> <<>>,
     refresh_token_key_unit |-> 0, refresh_token_key_time |-> "",
     refresh_token_key_signing |-> <<>>]

\* Faulty variant: the whole item is taken, app_name included.
reconfigure_whole(self, item) == item

reconfigure(self, item) ==
    [self EXCEPT
        !.access_token_key_unit = item.access_token_key_unit,
        !.access_token_key_time = item.access_token_key_time,
        !.access_token_key_signing = item.access_token_key_signing,
        !.refresh_token_key_unit = item.refresh_token_key_unit,
        !.refresh_token_key_time = item.refresh_token_key_time,
        !.refresh_token_key_signing = item.refresh_token_key_signing]

\* The match on key_time in generate_tokens.
token_duration(unit, time) ==
    IF time = "Minutes" THEN minutes(unit)
    ELSE IF time = "Hours" THEN hours(unit)
    ELSE IF time = "Days" THEN days(unit)
    ELSE seconds(unit)

footer_of(self) == "key-id:" \o self.app_name

TokenNew == [access |-> None, refresh |-> None, web |-> None]

\* generate_tokens from the Cipher on: Cipher::new(), encrypt_web, Token.
WebStage(e, c, nonce, access_token, refresh_token) ==
    IF CipherNewOutcome(e).kind = "panic" THEN Panic
    ELSE IF CipherNewOutcome(e).kind = "err"
    THEN Err("Cipher library failed to initialize")
    ELSE IF encrypt_web(CipherNewValue(e), trim(to_string(c)), nonce).kind # "ok"
    THEN Err("Encryption failed")
    ELSE Ok([access |-> Some(access_token), refresh |-> Some(refresh_token),
             web |-> Some(encrypt_web(CipherNewValue(e), trim(to_string(c)), nonce).val)])

RefreshBuilt(e, c, nonce, access_token, refresh_token) ==
    IF refresh_token.kind # "ok" THEN Err("Unable to generate refresh token")
    ELSE WebStage(e, c, nonce, access_token, refresh_token.val)

\* generate_tokens from the refresh duration on.
RefreshStage(self, e, aid, c, at, nonce, access_token) ==
    IF ~checked_add_signed(at, token_duration(self.refresh_token_key_unit,
                                              self.refresh_token_key_time)).some
    THEN Panic
    ELSE RefreshBuilt(e, c, nonce, access_token,
             PasetoBuild(self.refresh_token_key_signing,
                 checked_add_signed(at, token_duration(self.refresh_token_key_unit,
                                                       self.refresh_token_key_time)).v,
                 aid, footer_of(self), c))

AccessBuilt(self, e, aid, c, at, nonce, access_token) ==
    IF access_token.kind # "ok" THEN Err("Unable to generate access token")
    ELSE RefreshStage(self, e, aid, c, at, nonce, access_token.val)

\* generate_tokens(id, claims) at the instant at, under the environment e.
generate_tokens(self, e, id, claims, at, nonce) ==
    IF ~checked_add_signed(at, token_duration(self.access_token_key_unit,
                                              self.access_token_key_time)).some
    THEN Panic
    ELSE AccessBuilt(self, e, id, to_value(claims), at, nonce,
             PasetoBuild(self.access_token_key_signing,
                 checked_add_signed(at, token_duration(self.access_token_key_unit,
                                                       self.access_token_key_time)).v,
                 id, footer_of(self), to_value(claims)))

\* The tail shared by validate_access_token and validate_refresh_token:
\* get("data"), then serde_json::from_value.
ClaimsOf(result, invalid) ==
    IF result.val.data.t = "null" THEN Err(invalid)
    ELSE IF from_value(result.val.data).kind # "ok" THEN Err(invalid)
    ELSE from_value(result.val.data)

Classified(result, expired, invalid) ==
    IF result.kind # "ok"
    THEN (IF to_lowercase(result.err) = "this token is expired (exp claim)."
          THEN Err(expired) ELSE Err(invalid))
    ELSE ClaimsOf(result, invalid)

validate_refresh_token(self, token, at) ==
    Classified(validate_local_token(token, footer_of(self),
                                    self.refresh_token_key_signing, at),
               "Your refresh token has expired", "Invalid refresh token")

\* Faulty variant: the access check opens the token under the refresh key.
validate_access_token_refresh_key(self, token, at) ==
    Classified(validate_local_token(token, footer_of(self),
                                    self.refresh_token_key_signing, at),
               "Your authentication token has expired", "Invalid authentication token")

validate_access_token(self, token, at) ==
    Classified(validate_local_token(token, footer_of(self),
                                    self.access_token_key_signing, at),
               "Your authentication token has expired", "Invalid authentication token")

WebDecrypted(result) ==
    IF result.kind = "panic" THEN Panic
    ELSE IF result.kind # "ok" THEN Err("Decryption failed")
    ELSE IF from_str(result.val).kind # "ok" THEN Err("Invalid authentication token")
    ELSE from_str(result.val)

validate_web_token(e, token) ==
    IF CipherNewOutcome(e).kind = "panic" THEN Panic
    ELSE IF CipherNewOutcome(e).kind = "err"
    THEN Err("Cipher library failed to initialize")
    ELSE WebDecrypted(decrypt_web(CipherNewValue(e), token))

\* The value of an Option<DateTime>::unwrap().
Unwrapped(option) == IF option.some THEN Ok(option.v) ELSE Panic

\* bool::then(...).map_or(expiry, f): f runs when key_time is empty, on
\* "Minutes"; otherwise the default expiry is returned.
ExpiryChoice(key_time, expiry, own) ==
    IF expiry.kind # "ok" THEN Panic
    ELSE IF key_time = "" THEN own
    ELSE expiry

get_access_token_expiry(self, at) ==
    ExpiryChoice(self.access_token_key_time,
        Unwrapped(checked_add_signed(at, minutes(self.refresh_token_key_unit))),
        Unwrapped(checked_add_signed(at, token_duration(self.access_token_key_unit,
                                                        "Minutes"))))

get_refresh_token_expiry(self, at) ==
    ExpiryChoice(self.refresh_token_key_time,
        Unwrapped(checked_add_signed(at, minutes(self.refresh_token_key_unit))),
        Unwrapped(checked_add_signed(at, token_duration(self.refresh_token_key_unit,
                                                        "Minutes"))))


(***************************************************************************)
(* strings::get_token and the str operations the guard uses                *)
(***************************************************************************)
\* str::contains
contains(str, pat) ==
    \E i \in 1..(Len(str) - Len(pat) + 1) : SubSeq(str, i, i + Len(pat) - 1) = pat

\* The positions where pat occurs in str.
Occurrences(str, pat) ==
    { i \in 1..(Len(str) - Len(pat) + 1) : SubSeq(str, i, i + Len(pat) - 1) = pat }

IsBlank(c) == c \in { " ", "\t", "\n", "\r" }

\* str::trim on a text
trim_str(str) ==
    LET keep == { i \in 1..Len(str) : ~IsBlank(SubSeq(str, i, i)) } IN
    IF keep = {} THEN ""
    ELSE SubSeq(str, CHOOSE i \in keep : \A j \in keep : i <= j,
                     CHOOSE i \in keep : \A j \in keep : i >= j)

\* value.split("Bearer") has two parts when "Bearer" occurs exactly once; the
\* second part is what follows the occurrence.
get_token(value) ==
    IF value # "" /\ Cardinality(Occurrences(value, "Bearer")) = 1
    THEN Some(trim_str(SubSeq(value,
                              (CHOOSE i \in Occurrences(value, "Bearer") : TRUE) + 6,
                              Len(value))))
    ELSE [some |-> FALSE, v |-> ""]

(***************************************************************************)
(* Responses (src/src/payloads.rs, src/src/catchers.rs)                    *)
(***************************************************************************)
Forward(claims) == [kind |-> "forward", claims |-> claims, status |-> 0,
                    content_type |-> "", code |-> 0, error |-> ""]

Crash == [kind |-> "panic", claims |-> "", status |-> 0,
          content_type |-> "", code |-> 0, error |-> ""]

\* A JSON response whose body is a Payload with the given code and error.
JsonResponse(status, code, error) ==
    [kind |-> "response", claims |-> "", status |-> status,
     content_type |-> "application/json", code |-> code, error |-> error]

\* Payload::database_connection()
database_connection ==
    JsonResponse(400, 400, "Unable to initialize database connection. Please check your server configuration")

\* Payload::invalid_authentication_token()
invalid_authentication_token == JsonResponse(400, 400, "Invalid authentication token")

\* catchers::not_found_middleware(hbs): renders error/404.html and unwraps.
not_found_middleware(hbs) ==
    IF hbs # "with_404" THEN Crash
    ELSE [kind |-> "response", claims |-> "", status |-> 404,
          content_type |-> "text/html; charset=utf-8", code |-> 0, error |-> ""]

(***************************************************************************)
(* GuardMiddleware::call (src/src/guards/middlewares.rs)                   *)
(***************************************************************************)
\* The outcome of a call: what the request ends in, whether the callback was
\* invoked, and the token handed to it.
Decision(outcome, invoked, tok) == [outcome |-> outcome, invoked |-> invoked, token |-> tok]

\* What a call touched on its way: pool.get() (line 66) and the Authorization
\* header (line 115).
Touched(decision, pool_get, header_read) ==
    [outcome |-> decision.outcome, invoked |-> decision.invoked, token |-> decision.token,
     pool_get |-> pool_get, header_read |-> header_read]

\* The response of rules 2 and 4.
shaped(self, app) ==
    IF self.json_response \/ (self.json_response = FALSE /\ app.hbs = "none")
    THEN database_connection
    ELSE not_found_middleware(app.hbs)

has_allowed_roles(self) == IF self.roles.some THEN Len(self.roles.v) > 0 ELSE FALSE

\* The header value as the guard reads it: absent header gives "".
authorization(req) == trim_str(IF req.authorization.some THEN req.authorization.v ELSE "")

token_of(req) ==
    IF get_token(authorization(req)).some THEN get_token(authorization(req)).v ELSE ""

\* Faulty variant: every failure of the callback is answered with 400.
callback_outcome_always_400(result) ==
    IF result.kind = "ok" THEN Forward(result.claims)
    ELSE JsonResponse(400, 400, result.err)

\* The match on the callback's result.
callback_outcome(result) ==
    IF result.kind = "ok" THEN Forward(result.claims)
    ELSE IF contains(result.err, "expired") THEN JsonResponse(401, 401, result.err)
    ELSE JsonResponse(400, 400, result.err)

\* Faulty variant: no method is taken for the preflight method.
is_preflight_never(req) == FALSE

\* Rule 1: Method::OPTIONS == *req.method()
is_preflight(req) == req.method = "OPTIONS"

\* Faulty variant: rule 3 never applies.
database_only_never(self, req) == FALSE

\* Rule 3: the policy asks for a database and nothing else, and the pool
\* yielded a connection.
database_only(self, req) ==
    /\ self.has_database.some /\ self.has_database.v = TRUE
    /\ req.pool # "err" /\ ~self.callback /\ ~self.roles.some
    /\ self.is_refresh_token = FALSE /\ self.is_web_token = FALSE

\* The call from the Authorization header on (lines 114-191).
authenticated(self, req) ==
    IF req.pool = "err" THEN Decision(Crash, FALSE, "")
    ELSE IF self.callback
    THEN Decision(callback_outcome(req.callback_result), TRUE, token_of(req))
    ELSE Decision(invalid_authentication_token, FALSE, "")

call(self, app, req) ==
    IF is_preflight(req) THEN Touched(Decision(Forward(""), FALSE, ""), FALSE, FALSE)
    ELSE IF ~app.pool THEN Touched(Decision(Crash, FALSE, ""), FALSE, FALSE)
    ELSE IF self.has_database.some /\ self.has_database.v = TRUE /\ req.pool = "err"
    THEN Touched(Decision(shaped(self, app), FALSE, ""), TRUE, FALSE)
    ELSE IF database_only(self, req)
    THEN Touched(Decision(Forward(""), FALSE, ""), TRUE, FALSE)
    ELSE IF has_allowed_roles(self)
            /\ (~self.has_database.some \/ ~self.has_database.v)
    THEN Touched(Decision(shaped(self, app), FALSE, ""), TRUE, FALSE)
    ELSE Touched(authenticated(self, req), TRUE, TRUE)


\* Faulty variant: the downstream service is called before the claims are
\* inserted.
trail_service_first(d) ==
    (IF d.pool_get THEN << "pool.get" >> ELSE << >>)
    \o (IF d.header_read THEN << "headers.get" >> ELSE << >>)
    \o (IF d.invoked THEN << "callback" >> ELSE << >>)
    \o (IF d.outcome.kind = "forward" THEN << "service.call" >> ELSE << >>)
    \o (IF d.invoked /\ d.outcome.kind = "forward" THEN << "extensions.insert" >> ELSE << >>)

\* What a call did, in the order of the code: pool.get() (line 66), the
\* header (115), the callback (146), req.extensions_mut().insert(claims)
\* (149), self.service.call(req) (54, 88, 152).
trail(d) ==
    (IF d.pool_get THEN << "pool.get" >> ELSE << >>)
    \o (IF d.header_read THEN << "headers.get" >> ELSE << >>)
    \o (IF d.invoked THEN << "callback" >> ELSE << >>)
    \o (IF d.invoked /\ d.outcome.kind = "forward" THEN << "extensions.insert" >> ELSE << >>)
    \o (IF d.outcome.kind = "forward" THEN << "service.call" >> ELSE << >>)

(***************************************************************************)
(* State                                                                   *)
(***************************************************************************)
VARIABLES
    env,        \* process environment: MASTER_KEY and WEB_KEY, each optional text
    cipher,     \* the Cipher value under test
    box,        \* the payload most recently returned by an encrypt operation
    wrapped,    \* the generated key most recently wrapped by encrypt_master
    last,       \* the most recent Cipher call: operation, inputs, outcome
    paseto,     \* the Paseto value under test
    now,        \* the clock, in ticks
    token,      \* the Token issued by generate_tokens, with who issued it and when
    plast,      \* the most recent Paseto call: operation, input, instant, outcome
    guard,      \* the route policy of the GuardMiddleware under test
    app,        \* the app data: is a pool registered, which template engine
    served,     \* the request the guard handled, and what it ended in
    payload,    \* the Payload under test
    answer,     \* what the most recent Payload operation produced
    clients,    \* BroadcasterInner.clients: channel name -> senders, in order
    live,       \* the senders whose receiving end is still connected
    calls,      \* the new_client calls: position, channel, sender, copy of the map
    sweep,      \* the remove_stale_clients call: position, copy of the map, kept senders
    delivered,  \* what the most recent broadcast sent, and the message it was given
    rooms,      \* Server.rooms: room name -> (client id -> recipient)
    gone,       \* the recipients whose mailbox no longer accepts messages
    wlast       \* the most recent chat-server handler: message, room, id returned

cipherVars == << cipher, box, wrapped, last >>

pasetoVars == << paseto, now, token, plast >>

guardVars == << guard, app, served >>

payloadVars == << payload, answer >>

sseVars == << clients, live, calls, sweep, delivered >>

wsVars == << rooms, gone, wlast >>

moreVars == << payloadVars, sseVars, wsVars >>

vars == << env, cipherVars, pasetoVars, guardVars, moreVars >>

(***************************************************************************)
(* Inputs of the Cipher operations                                         *)
(***************************************************************************)
MaxLen == 1

KeyA == Rep(17, KeyLen)

KeyB == Rep(34, KeyLen)

\* Values an environment variable can hold: absent, a well-formed key,
\* a key of the wrong length, and text that is not base64url ("!").
MasterValues ==
    { None, Some(B64Encode(KeyA)), Some(B64Encode(Rep(17, 3))), Some(<< 33 >>) }

WebValues == MasterValues \cup { Some(B64Encode(KeyB)) }

\* Plaintext strings: "a" repeated 0..MaxLen times, and the two-byte "e-acute".
Plain == { Rep(97, n) : n \in 0..MaxLen } \cup { << 195, 169 >> }

\* Contents for encrypt_hash: the empty string and "m" followed by "e-acute".
Msgs == { <<>>, << 109, 195, 169 >> }

\* Keys returned by ciphers::generate().
HashKeys == { generate(Rep(5, KeyLen)), generate(Rep(9, KeyLen)) }

\* A text that decodes to fewer than KeyLen bytes.
ShortKey == generate(Rep(5, 3))

Nonces == { Rep(201, NonceLen) }

\* Texts that no encrypt operation produced: empty, not base64url, and a
\* payload of exactly NonceLen bytes.
RawTexts == { <<>>, << 33 >>, B64Encode(Rep(1, NonceLen)) }

\* The payload text with the byte at position pos of the decoded payload
\* altered; pos = 0 stands for the last byte.
TamperAt(d, q) ==
    B64Encode([i \in 1..Len(d) |-> IF i = q THEN (d[i] + 1) % 256 ELSE d[i]])

TamperBytes(d, pos) == TamperAt(d, IF pos = 0 THEN Len(d) ELSE pos)

Tamper(text, pos) == TamperBytes(B64Decode(text).val, pos)

\* Positions altered: 1 is in the nonce, NonceLen + 1 is the first byte of the
\* ciphertext region, 0 the last byte of the ciphertext region.
TamperPos == { 1, NonceLen + 1, 0 }

\* Decrypt inputs: the boxed payload as returned (tamper = -1) or altered at a
\* position, or a raw text.  Each candidate records where it came from.
Candidates ==
    (IF box.some
     THEN { [src |-> box.v.op, tamper |-> -1, text |-> box.v.text] }
          \cup { [src |-> box.v.op, tamper |-> q, text |-> Tamper(box.v.text, q)] :
                 q \in TamperPos }
     ELSE {})
    \cup { [src |-> "raw", tamper |-> -1, text |-> t] : t \in RawTexts }

\* Wrapped-key inputs of decrypt_deep_hash.
WrappedCandidates ==
    (IF wrapped.some
     THEN { [src |-> "wrapped", tamper |-> -1, text |-> wrapped.v.text],
            [src |-> "wrapped", tamper |-> 0, text |-> Tamper(wrapped.v.text, 0)] }
     ELSE {})
    \cup { [src |-> "raw", tamper |-> -1, text |-> t] : t \in RawTexts }

Call(op, cand, arg2, out) ==
    [op |-> op, src |-> cand.src, tamper |-> cand.tamper,
     arg |-> cand.text, arg2 |-> arg2, out |-> out]

Direct(text) == [src |-> "none", tamper |-> -1, text |-> text]

Sealed(op, out, plain, hash) ==
    Some([op |-> op, text |-> out.val, plain |-> plain, hash |-> hash])

(***************************************************************************)
(* Cipher specification.  The Cipher methods take &self and keep no state, *)
(* so the outcome of a call depends on its inputs alone: a run sets the    *)
(* Cipher up, makes encrypt calls, and ends with the one decrypt call      *)
(* whose outcome is examined.                                              *)
(***************************************************************************)
\* The Paseto variables where no Paseto is under test.
PasetoIdle ==
    /\ paseto = PasetoDefault
    /\ now = 0
    /\ token = None
    /\ plast = [op |-> "init", which |-> "none", at |-> 0, out |-> NoCall]

NoRequest ==
    [method |-> "", authorization |-> [some |-> FALSE, v |-> ""], pool |-> "",
     callback_result |-> [kind |-> "", claims |-> "", err |-> ""]]

Unserved ==
    [req |-> NoRequest, decision |-> Touched(Decision(Forward(""), FALSE, ""), FALSE, FALSE),
     done |-> FALSE]

DefaultPolicy ==
    [roles |-> [some |-> FALSE, v |-> <<>>], callback |-> FALSE,
     has_database |-> [some |-> FALSE, v |-> FALSE], json_response |-> FALSE,
     is_optional |-> FALSE, is_refresh_token |-> FALSE, is_web_token |-> FALSE]

\* The guard variables where no guard is under test.
GuardIdle ==
    /\ guard = DefaultPolicy
    /\ app = [pool |-> FALSE, hbs |-> "none"]
    /\ served = Unserved

\* Option<u16>::None
NoCode == [some |-> FALSE, v |-> 0]

\* Payload::default()
PayloadDefault == [code |-> NoCode, challenge |-> "", message |-> "", error |-> ""]

NoAnswer == [op |-> "none", frames |-> 0, out |-> NoCall]

\* The Payload variables where no Payload is under test.
PayloadIdle ==
    /\ payload = PayloadDefault
    /\ answer = NoAnswer

\* HashMap::new()
EmptyMap == [k \in {} |-> << >>]

\* The new_client calls a run may make.
Callers == { "a", "b" }

NotCalled == [pc |-> "idle", channel |-> "", copy |-> EmptyMap]

NotSweeping == [pc |-> "idle", copy |-> EmptyMap, ok_clients |-> EmptyMap]

\* Option<String>::None
Absent == [some |-> FALSE, v |-> ""]

\* Message::default()
NoMessage == [channel |-> Absent, event |-> Absent, data |-> Absent]

NothingSent == [done |-> FALSE, params |-> NoMessage, sent |-> {}]

\* The broadcaster variables where no Broadcaster is under test.
SseIdle ==
    /\ clients = EmptyMap
    /\ live = {}
    /\ calls = [k \in Callers |-> NotCalled]
    /\ sweep = NotSweeping
    /\ delivered = NothingSent

NoHandler == [op |-> "init", room |-> "", id |-> -1]

\* The chat-server variables where no Server is under test.
WsIdle ==
    /\ rooms = EmptyMap
    /\ gone = {}
    /\ wlast = NoHandler

MoreIdle == PayloadIdle /\ SseIdle /\ WsIdle

DecryptOps == { "decrypt_master", "decrypt_web", "decrypt_hash", "decrypt_deep_hash" }

Running == last.op \notin DecryptOps

InitCipher ==
    /\ env \in [MASTER_KEY : MasterValues, WEB_KEY : WebValues]
    /\ cipher = CipherDefault
    /\ box = None
    /\ wrapped = None
    /\ last = Call("init", Direct(<<>>), <<>>, NoCall)
    /\ PasetoIdle
    /\ GuardIdle
    /\ MoreIdle

CipherNew ==
    /\ Running
    /\ cipher = CipherDefault
    /\ cipher' = IF CipherNewOutcome(env).kind = "ok" THEN CipherNewValue(env) ELSE cipher
    /\ last' = Call("new", Direct(<<>>), <<>>, CipherNewOutcome(env))
    /\ UNCHANGED << env, box, wrapped, pasetoVars, guardVars, moreVars >>

EncryptMaster ==
    /\ Running
    /\ \E str \in Plain, nonce \in Nonces :
        \E out \in { encrypt_master(cipher, str, nonce) } :
        /\ last' = Call("encrypt_master", Direct(str), <<>>, out)
        /\ box' = IF out.kind = "ok" THEN Sealed("encrypt_master", out, str, <<>>) ELSE box
        /\ UNCHANGED << env, cipher, wrapped, pasetoVars, guardVars, moreVars >>

\* encrypt_master applied to a key from ciphers::generate().
WrapKey ==
    /\ Running
    /\ \E hash \in HashKeys, nonce \in Nonces :
        \E out \in { encrypt_master(cipher, hash, nonce) } :
        /\ last' = Call("wrap_key", Direct(hash), <<>>, out)
        /\ wrapped' = IF out.kind = "ok" THEN Sealed("encrypt_master", out, hash, <<>>)
                      ELSE wrapped
        /\ UNCHANGED << env, cipher, box, pasetoVars, guardVars, moreVars >>

EncryptWeb ==
    /\ Running
    /\ \E str \in Plain, nonce \in Nonces :
        \E out \in { encrypt_web(cipher, str, nonce) } :
        /\ last' = Call("encrypt_web", Direct(str), <<>>, out)
        /\ box' = IF out.kind = "ok" THEN Sealed("encrypt_web", out, str, <<>>) ELSE box
        /\ UNCHANGED << env, cipher, wrapped, pasetoVars, guardVars, moreVars >>

EncryptHash ==
    /\ Running
    /\ \E content \in Msgs, hash \in HashKeys \cup { ShortKey }, nonce \in Nonces :
        \E out \in { encrypt_hash(content, hash, nonce) } :
        /\ last' = Call("encrypt_hash", Direct(content), hash, out)
        /\ box' = IF out.kind = "ok" THEN Sealed("encrypt_hash", out, content, hash) ELSE box
        /\ UNCHANGED << env, cipher, wrapped, pasetoVars, guardVars, moreVars >>

DecryptMaster ==
    /\ Running
    /\ \E cand \in Candidates :
        /\ last' = Call("decrypt_master", cand, <<>>, decrypt_master(cipher, cand.text))
        /\ UNCHANGED << env, cipher, box, wrapped, pasetoVars, guardVars, moreVars >>

DecryptWeb ==
    /\ Running
    /\ \E cand \in Candidates :
        /\ last' = Call("decrypt_web", cand, <<>>, decrypt_web(cipher, cand.text))
        /\ UNCHANGED << env, cipher, box, wrapped, pasetoVars, guardVars, moreVars >>

DecryptHash ==
    /\ Running
    /\ \E cand \in Candidates, hash \in HashKeys \cup { ShortKey } :
        /\ last' = Call("decrypt_hash", cand, hash, decrypt_hash(cand.text, hash))
        /\ UNCHANGED << env, cipher, box, wrapped, pasetoVars, guardVars, moreVars >>

\* decrypt_deep_hash(content, hash); at most one of the two inputs is other
\* than a payload as it was returned.
DecryptDeepHash ==
    /\ Running
    /\ \E cand \in Candidates, w \in WrappedCandidates :
        /\ \/ cand.src # "raw" /\ cand.tamper = -1
           \/ w.src # "raw" /\ w.tamper = -1
        /\ last' = Call("decrypt_deep_hash", cand, w.text,
                        decrypt_deep_hash(cipher, cand.text, w.text))
        /\ UNCHANGED << env, cipher, box, wrapped, pasetoVars, guardVars, moreVars >>

NextCipher ==
    \/ CipherNew
    \/ EncryptMaster
    \/ WrapKey
    \/ EncryptWeb
    \/ EncryptHash
    \/ DecryptMaster
    \/ DecryptWeb
    \/ DecryptHash
    \/ DecryptDeepHash

SpecCipher == InitCipher /\ [][NextCipher]_vars

(***************************************************************************)
(* Properties of the Cipher                                                *)
(***************************************************************************)
\* The last call was op, on the boxed payload exactly as src returned it.
Replayed(op, src) == last.op = op /\ last.src = src /\ last.tamper = -1

\* The last call decrypted the boxed payload under the key slot it was
\* encrypted with, unmodified.
RoundTripCall ==
    \/ Replayed("decrypt_master", "encrypt_master")
    \/ Replayed("decrypt_web", "encrypt_web")

\* C1: decrypt_master(encrypt_master(P)) = Ok(P) and
\* decrypt_web(encrypt_web(P)) = Ok(P) for every plaintext P, the empty one
\* included, on an initialized Cipher.
C1_RoundTrip ==
    RoundTripCall => /\ last.out.kind = "ok"
                     /\ last.out.val = box.v.plain

\* The empty plaintext went through encrypt_web and decrypt_web.
C1_Witness ==
    /\ Replayed("decrypt_web", "encrypt_web")
    /\ box.v.plain = <<>>
    /\ cipher.web.some

\* The key slot a master/web operation works under.
SlotOf(op) ==
    IF op \in { "encrypt_master", "decrypt_master" } THEN cipher.master ELSE cipher.web

\* The last call was decrypt_master or decrypt_web on a payload that
\* encrypt_master or encrypt_web returned, possibly altered afterwards.
IssuedCall ==
    /\ last.op \in { "decrypt_master", "decrypt_web" }
    /\ last.src \in { "encrypt_master", "encrypt_web" }

Rejected == last.out.kind = "err" /\ last.out.err = "Unable to decrypt text"

\* A plaintext comes back only for the unmodified payload under the key it
\* was sealed with, and it is the plaintext that was encrypted.
OnlyGenuine ==
    last.out.kind = "ok" => /\ last.tamper = -1
                            /\ SlotOf(last.src) = SlotOf(last.op)
                            /\ last.out.val = box.v.plain

\* C2 (amended): a plaintext is returned only for an unmodified payload
\* sealed under the same key; an altered payload is rejected with 'Unable to
\* decrypt text', and so is a payload of the other slot, provided the master
\* key and the web key differ.
C2_Authenticity ==
    IssuedCall =>
        /\ OnlyGenuine
        /\ last.tamper # -1 => Rejected
        /\ (last.tamper = -1 /\ SlotOf(last.src) # SlotOf(last.op)) => Rejected

\* A web payload was presented to decrypt_master, the two keys differing.
C2_Witness ==
    /\ Replayed("decrypt_master", "encrypt_web")
    /\ cipher.master # cipher.web
    /\ Rejected

\* The decrypt operation and the encrypt operation are of different slots.
CrossSlot ==
    \/ last.op = "decrypt_master" /\ last.src = "encrypt_web"
    \/ last.op = "decrypt_web" /\ last.src = "encrypt_master"

\* C2 as stated: every altered payload and every payload of the other slot
\* is rejected with 'Unable to decrypt text', whatever the two keys are.
C2_AsStated ==
    IssuedCall =>
        /\ last.tamper # -1 => Rejected
        /\ CrossSlot => Rejected

\* The last call was decrypt_deep_hash on a payload of encrypt_hash and the
\* wrapping, by encrypt_master, of the key that payload was sealed with.
DeepCall ==
    /\ Replayed("decrypt_deep_hash", "encrypt_hash")
    /\ wrapped.some
    /\ last.arg2 = wrapped.v.text
    /\ wrapped.v.plain = box.v.hash

\* C3: decrypt_deep_hash(encrypt_hash(msg, k), encrypt_master(k)) = Ok(msg)
\* for every message msg and generated key k, the master key being loaded.
C3_DeepComposition ==
    DeepCall => /\ last.out.kind = "ok"
                /\ last.out.val = box.v.plain

\* A non-empty message went through encrypt_hash and decrypt_deep_hash.
C3_Witness ==
    /\ DeepCall
    /\ box.v.plain = << 109, 195, 169 >>
    /\ cipher.master.some

(***************************************************************************)
(* Paseto specification.  A run configures a Paseto, issues at most one    *)
(* Token, lets time pass, and ends with the one validation or expiry       *)
(* report whose outcome is examined.                                       *)
(***************************************************************************)
MaxIdle == 1

SignKey1 == Rep(1, KeyLen)

SignKey2 == Rep(2, KeyLen)

\* Signing keys: two well-formed ones and one of the wrong length.
SignKeys == { SignKey1, SignKey2, Rep(1, 3) }

AccessUnits == { -1, 0, 2 }

KeyTimes == { "Minutes", "Hours", "Days", "", "Weeks" }

RefreshTimes == { "Minutes", "Days" }

Configured(au, at, ak, rt, rk) ==
    [app_name |-> "A",
     access_token_key_unit |-> au, access_token_key_time |-> at,
     access_token_key_signing |-> ak,
     refresh_token_key_unit |-> 2, refresh_token_key_time |-> rt,
     refresh_token_key_signing |-> rk]

\* Configurations: every access setting beside one refresh setting, and
\* every refresh setting beside one access setting.
Configs ==
    { Configured(au, at, ak, "Days", SignKey2) :
        au \in AccessUnits, at \in KeyTimes, ak \in SignKeys }
    \cup { Configured(2, "Minutes", SignKey1, rt, rk) :
            rt \in RefreshTimes, rk \in SignKeys }

BaseConfig == Configured(2, "Minutes", SignKey1, "Days", SignKey2)

\* An access duration of i32::MAX days.
FarConfig == Configured(2147483647, "Days", SignKey1, "Minutes", SignKey2)

GoodEnv == [MASTER_KEY |-> Some(B64Encode(KeyA)), WEB_KEY |-> Some(B64Encode(KeyB))]

AppNames == { "A", "B" }

ReconfigItems == { BaseConfig }

Ids == { "u1" }

ClaimValues == { 0, 42 }

\* What a caller can present to validate_access_token / validate_refresh_token:
\* a field of the issued Token (the web field is not a v2.local token), or
\* some other string.
Presentable ==
    (IF token.some
     THEN { [which |-> "access", tok |-> token.v.fields.access.v],
            [which |-> "refresh", tok |-> token.v.fields.refresh.v],
            [which |-> "web", tok |-> NotPaseto] }
     ELSE {})
    \cup { [which |-> "other", tok |-> NotPaseto] }

\* What a caller can present to validate_web_token: the web field as issued
\* or with its last byte altered, or the text "v2.local.x".
PresentableWeb ==
    (IF token.some
     THEN { [which |-> "web", text |-> token.v.fields.web.v],
            [which |-> "altered", text |-> Tamper(token.v.fields.web.v, 0)] }
     ELSE {})
    \cup { [which |-> "other", text |-> << 118, 50, 46, 108, 111, 99, 97, 108, 46, 120 >>] }

ExamineOps ==
    { "validate_access_token", "validate_refresh_token", "validate_web_token",
      "get_access_token_expiry", "get_refresh_token_expiry",
      "validate_access_token_again", "validate_refresh_token_again" }

PasetoRunning == plast.op \notin ExamineOps

PCall(op, which, out) == [op |-> op, which |-> which, at |-> now, out |-> out]

Issued(out, claims) ==
    Some([fields |-> out.val, issuer |-> paseto, at |-> now, claims |-> claims])

\* The instants the clock is moved to: the next tick while nothing is issued,
\* and the tick after the expiry of an issued token.
AdvanceTargets ==
    { t \in (IF token.some
             THEN { token.v.fields.access.v.claims.exp + 1,
                    token.v.fields.refresh.v.claims.exp + 1 }
             ELSE { u \in { now + 1 } : now < MaxIdle }) : t > now }

InitPaseto ==
    /\ \/ paseto \in Configs \cup { FarConfig, PasetoDefault } /\ env = GoodEnv
       \/ /\ paseto = BaseConfig
          /\ env \in [MASTER_KEY : MasterValues, WEB_KEY : WebValues]
    /\ now = 0
    /\ token = None
    /\ plast = [op |-> "init", which |-> "none", at |-> 0, out |-> NoCall]
    /\ cipher = CipherDefault
    /\ box = None
    /\ wrapped = None
    /\ last = Call("init", Direct(<<>>), <<>>, NoCall)
    /\ GuardIdle
    /\ MoreIdle

\* generate_tokens; the call takes one tick.
GenerateTokens ==
    /\ PasetoRunning
    /\ ~token.some
    /\ now <= MaxIdle
    /\ \E id \in Ids, claims \in ClaimValues, nonce \in Nonces :
        \E out \in { generate_tokens(paseto, env, id, claims, now, nonce) } :
        /\ plast' = PCall("generate_tokens", "none", out)
        /\ token' = IF out.kind = "ok" THEN Issued(out, claims) ELSE token
        /\ now' = now + 1
        /\ UNCHANGED << env, paseto, cipherVars, guardVars, moreVars >>

\* The last call rejected a token that generate_tokens issued.
RejectedOnce ==
    /\ plast.op \in { "validate_access_token", "validate_refresh_token" }
    /\ plast.which \in { "access", "refresh" }
    /\ plast.out.kind = "err"

\* The token string the last validation was given.
PresentedToken ==
    IF plast.which = "access" THEN token.v.fields.access.v
    ELSE token.v.fields.refresh.v

Advance ==
    /\ PasetoRunning \/ RejectedOnce
    /\ now' \in AdvanceTargets
    /\ UNCHANGED << env, paseto, token, plast, cipherVars, guardVars, moreVars >>

\* Assignment to the public field app_name.
SetAppName ==
    /\ PasetoRunning
    /\ \E name \in AppNames \ { paseto.app_name } :
        paseto' = [paseto EXCEPT !.app_name = name]
    /\ UNCHANGED << env, now, token, plast, cipherVars, guardVars, moreVars >>

Reconfigure ==
    /\ PasetoRunning
    /\ \E item \in ReconfigItems : paseto' = reconfigure(paseto, item)
    /\ UNCHANGED << env, now, token, plast, cipherVars, guardVars, moreVars >>

ValidateAccessToken ==
    /\ PasetoRunning
    /\ \E p \in Presentable :
        plast' = PCall("validate_access_token", p.which,
                       validate_access_token(paseto, p.tok, now))
    /\ UNCHANGED << env, paseto, now, token, cipherVars, guardVars, moreVars >>

ValidateRefreshToken ==
    /\ PasetoRunning
    /\ \E p \in Presentable :
        plast' = PCall("validate_refresh_token", p.which,
                       validate_refresh_token(paseto, p.tok, now))
    /\ UNCHANGED << env, paseto, now, token, cipherVars, guardVars, moreVars >>

ValidateWebToken ==
    /\ PasetoRunning
    /\ \E p \in PresentableWeb :
        plast' = PCall("validate_web_token", p.which, validate_web_token(env, p.text))
    /\ UNCHANGED << env, paseto, now, token, cipherVars, guardVars, moreVars >>

GetAccessTokenExpiry ==
    /\ PasetoRunning
    /\ plast' = PCall("get_access_token_expiry", "none",
                      get_access_token_expiry(paseto, now))
    /\ UNCHANGED << env, paseto, now, token, cipherVars, guardVars, moreVars >>

GetRefreshTokenExpiry ==
    /\ PasetoRunning
    /\ plast' = PCall("get_refresh_token_expiry", "none",
                      get_refresh_token_expiry(paseto, now))
    /\ UNCHANGED << env, paseto, now, token, cipherVars, guardVars, moreVars >>

\* The same operation validates, at the present instant, the string it has
\* rejected.
ValidateAccessTokenAgain ==
    /\ RejectedOnce
    /\ plast.op = "validate_access_token"
    /\ plast' = PCall("validate_access_token_again", plast.which,
                      validate_access_token(paseto, PresentedToken, now))
    /\ UNCHANGED << env, paseto, now, token, cipherVars, guardVars, moreVars >>

ValidateRefreshTokenAgain ==
    /\ RejectedOnce
    /\ plast.op = "validate_refresh_token"
    /\ plast' = PCall("validate_refresh_token_again", plast.which,
                      validate_refresh_token(paseto, PresentedToken, now))
    /\ UNCHANGED << env, paseto, now, token, cipherVars, guardVars, moreVars >>

\* The environment after WEB_KEY was replaced by another well-formed key.
RotatedEnv == [MASTER_KEY |-> Some(B64Encode(KeyA)), WEB_KEY |-> Some(B64Encode(KeyA))]

\* The process environment changes after a Token was issued: std::env::var
\* is read by every Cipher::new().
ChangeEnv ==
    /\ PasetoRunning
    /\ token.some
    /\ env = GoodEnv
    /\ env' = RotatedEnv
    /\ UNCHANGED << paseto, now, token, plast, cipherVars, guardVars, moreVars >>

NextPaseto ==
    \/ ChangeEnv
    \/ ValidateAccessTokenAgain
    \/ ValidateRefreshTokenAgain
    \/ GenerateTokens
    \/ Advance
    \/ SetAppName
    \/ Reconfigure
    \/ ValidateAccessToken
    \/ ValidateRefreshToken
    \/ ValidateWebToken
    \/ GetAccessTokenExpiry
    \/ GetRefreshTokenExpiry

SpecPaseto == InitPaseto /\ [][NextPaseto]_vars

(***************************************************************************)
(* Properties of the Paseto                                                *)
(***************************************************************************)
ErrIs(msg) == plast.out.kind = "err" /\ plast.out.err = msg

\* The call returned the claims that generate_tokens was given.
ReturnedIssuedClaims == plast.out.kind = "ok" /\ plast.out.val = token.v.claims

AccessExp == token.v.fields.access.v.claims.exp

RefreshExp == token.v.fields.refresh.v.claims.exp

\* The last call was validate_access_token on the access token, by the
\* Paseto that issued it, its configuration unchanged.
OwnAccessCheck ==
    /\ plast.op = "validate_access_token"
    /\ plast.which = "access"
    /\ token.v.issuer = paseto

\* C4 (amended): an access token validated under the configuration that
\* issued it returns the issued claims up to its expiry and fails with 'Your
\* authentication token has expired' after it; validation right after
\* issuance succeeds when access_token_key_unit is positive.
C4_ExpiryMonotonic ==
    OwnAccessCheck =>
        /\ plast.at > AccessExp => ErrIs("Your authentication token has expired")
        /\ plast.at <= AccessExp => ReturnedIssuedClaims
        /\ (plast.at = token.v.at + 1 /\ paseto.access_token_key_unit > 0)
               => ReturnedIssuedClaims

\* A token of positive duration was validated after that duration elapsed.
C4_Witness ==
    /\ OwnAccessCheck
    /\ paseto.access_token_key_unit > 0
    /\ plast.at > AccessExp
    /\ ErrIs("Your authentication token has expired")

\* C4 as stated: under every configuration, validation right after issuance
\* succeeds, and validation after the duration fails with the expired error.
C4_AsStated ==
    OwnAccessCheck =>
        /\ plast.at = token.v.at + 1 => ReturnedIssuedClaims
        /\ plast.at > AccessExp => ErrIs("Your authentication token has expired")

\* The last call presented the refresh token to validate_access_token, or
\* the access token to validate_refresh_token, of the Paseto that issued it.
CrossKindCheck ==
    /\ \/ plast.op = "validate_access_token" /\ plast.which = "refresh"
       \/ plast.op = "validate_refresh_token" /\ plast.which = "access"
    /\ token.v.issuer = paseto

\* C5 (amended): when the access and the refresh signing keys differ, a
\* refresh token is never accepted by validate_access_token and an access
\* token is never accepted by validate_refresh_token.
C5_Separation ==
    (CrossKindCheck
     /\ paseto.access_token_key_signing # paseto.refresh_token_key_signing)
        => plast.out.kind = "err"

\* A refresh token was presented to validate_access_token, the keys differing.
C5_Witness ==
    /\ CrossKindCheck
    /\ plast.op = "validate_access_token"
    /\ paseto.access_token_key_signing # paseto.refresh_token_key_signing
    /\ plast.at <= RefreshExp
    /\ ErrIs("Invalid authentication token")

\* C5 as stated: under every configuration the token of the other kind is
\* rejected.
C5_AsStated == CrossKindCheck => plast.out.kind = "err"

\* The last call presented a token to the validation of its own kind.
OwnKindCheck ==
    \/ plast.op = "validate_access_token" /\ plast.which = "access"
    \/ plast.op = "validate_refresh_token" /\ plast.which = "refresh"

SameKeys ==
    /\ paseto.access_token_key_signing = token.v.issuer.access_token_key_signing
    /\ paseto.refresh_token_key_signing = token.v.issuer.refresh_token_key_signing

\* C6: a token issued under app_name A is rejected as invalid, not as
\* expired, by the validation of a Paseto whose app_name is not A, whatever
\* the keys and the instant.
C6_FooterBinding ==
    (OwnKindCheck /\ paseto.app_name # token.v.issuer.app_name) =>
        IF plast.op = "validate_access_token"
        THEN ErrIs("Invalid authentication token")
        ELSE ErrIs("Invalid refresh token")

\* An unexpired access token met a Paseto of another app_name and equal keys.
C6_Witness ==
    /\ plast.op = "validate_access_token"
    /\ plast.which = "access"
    /\ paseto.app_name # token.v.issuer.app_name
    /\ SameKeys
    /\ plast.at <= AccessExp

Populated(fields) == fields.access.some /\ fields.refresh.some /\ fields.web.some

\* C7 as stated: generate_tokens returns an error result, or a Token with
\* all three fields populated; a failure at any stage is an error result.
C7_AllOrNothing ==
    plast.op = "generate_tokens" =>
        \/ plast.out.kind = "err"
        \/ plast.out.kind = "ok" /\ Populated(plast.out.val)

\* The expiry generate_tokens embeds in a token issued at the instant at.
Embedded(unit, time, at) == Unwrapped(checked_add_signed(at, token_duration(unit, time)))

SameOutcome(a, b) == a.kind = b.kind /\ (a.kind = "ok" => a.val = b.val)

\* C8 as stated: the reported expiry of a kind is the expiry generate_tokens
\* embeds in a token of that kind issued at the same instant.
C8_ReportedExpiry ==
    /\ plast.op = "get_access_token_expiry" =>
           SameOutcome(plast.out, Embedded(paseto.access_token_key_unit,
                                           paseto.access_token_key_time, plast.at))
    /\ plast.op = "get_refresh_token_expiry" =>
           SameOutcome(plast.out, Embedded(paseto.refresh_token_key_unit,
                                           paseto.refresh_token_key_time, plast.at))

(***************************************************************************)
(* Guard specification.  The app data and the route policy are fixed at    *)
(* startup; the guard keeps no state between requests, so a run handles    *)
(* the one request whose decision is examined.                             *)
(***************************************************************************)
Policies ==
    [roles : { [some |-> FALSE, v |-> <<>>], [some |-> TRUE, v |-> <<>>],
               [some |-> TRUE, v |-> << "admin" >>] },
     callback : BOOLEAN,
     has_database : { [some |-> FALSE, v |-> FALSE], [some |-> TRUE, v |-> FALSE],
                      [some |-> TRUE, v |-> TRUE] },
     json_response : BOOLEAN,
     is_optional : BOOLEAN,
     is_refresh_token : BOOLEAN,
     is_web_token : BOOLEAN]

\* App data: whether a DBPool is registered; no Handlebars, one with the
\* template error/404.html, or one without it.
Apps == [pool : BOOLEAN, hbs : { "none", "with_404", "without_404" }]

Methods == { "OPTIONS", "GET" }

Authorizations ==
    { [some |-> FALSE, v |-> ""], [some |-> TRUE, v |-> " Bearer abc "],
      [some |-> TRUE, v |-> "Basic abc"], [some |-> TRUE, v |-> "Bearer   abc123  "],
      [some |-> TRUE, v |-> "Token abc123"], [some |-> TRUE, v |-> "Token Bearer abc123"] }

CallbackResults ==
    { [kind |-> "ok", claims |-> "claims", err |-> ""],
      [kind |-> "err", claims |-> "", err |-> "Your authentication token has expired"],
      [kind |-> "err", claims |-> "", err |-> "Invalid authentication token"],
      [kind |-> "err", claims |-> "", err |-> "Token Expired"] }

\* A request: method, Authorization header, what pool.get() yields for it and
\* what the callback returns if it is asked.
Requests ==
    [method : Methods, authorization : Authorizations, pool : { "ok", "err" },
     callback_result : CallbackResults]

InitGuard ==
    /\ guard \in Policies
    /\ app \in Apps
    /\ served = Unserved
    /\ env = GoodEnv
    /\ cipher = CipherDefault
    /\ box = None
    /\ wrapped = None
    /\ last = Call("init", Direct(<<>>), <<>>, NoCall)
    /\ PasetoIdle
    /\ MoreIdle

GuardCall ==
    /\ ~served.done
    /\ \E req \in Requests :
        served' = [req |-> req, decision |-> call(guard, app, req), done |-> TRUE]
    /\ UNCHANGED << env, guard, app, cipherVars, pasetoVars, moreVars >>

NextGuard == GuardCall

SpecGuard == InitGuard /\ [][NextGuard]_vars

(***************************************************************************)
(* Properties of the guard                                                 *)
(***************************************************************************)
Outcome == served.decision.outcome

\* The collaborators are as the guard expects them: a pool is registered,
\* and the template engine, if one is registered, has error/404.html.
Provisioned == app.pool /\ app.hbs # "without_404"

\* C9 as stated: with a pool that yields a connection or not and a template
\* engine registered or not, every call ends in a forwarded request or a
\* response, and a pool that yields no connection ends in a response of
\* status 400.
C9_NeverPanics ==
    (served.done /\ Provisioned) =>
        /\ Outcome.kind \in { "forward", "response" }
        /\ (served.req.method # "OPTIONS" /\ served.req.pool = "err")
               => (Outcome.kind = "response" /\ Outcome.status = 400)

\* The policy requires a database and the registered pool yields no
\* connection for a request that is not a preflight.
DatabaseDown ==
    /\ served.done
    /\ served.req.method # "OPTIONS"
    /\ app.pool
    /\ guard.has_database.some /\ guard.has_database.v
    /\ served.req.pool = "err"

\* C10 as stated: with the database required and unreachable the guard
\* denies, without invoking the callback: with the database-unavailable JSON
\* payload when json_response is set or no template engine is registered,
\* otherwise with an HTML error page.
C10_DatabaseRuleFirst ==
    DatabaseDown =>
        /\ ~served.decision.invoked
        /\ Outcome.kind = "response"
        /\ IF guard.json_response \/ app.hbs = "none"
           THEN Outcome = database_connection
           ELSE Outcome.content_type = "text/html; charset=utf-8"

\* The request was not a preflight.
Handled == served.done /\ served.req.method # "OPTIONS"

\* C11: a request whose method is OPTIONS is forwarded downstream; the
\* Authorization header is not read, no connection is asked of the pool and
\* the callback is not invoked, whatever the policy and the collaborators.
C11_PreflightBypass ==
    (served.done /\ served.req.method = "OPTIONS") =>
        /\ Outcome.kind = "forward"
        /\ ~served.decision.header_read
        /\ ~served.decision.pool_get
        /\ ~served.decision.invoked

\* A preflight carrying a Bearer header met a policy with a callback and a
\* required database whose pool yields no connection.
C11_Witness ==
    /\ served.done /\ served.req.method = "OPTIONS"
    /\ guard.callback /\ guard.has_database.some /\ guard.has_database.v
    /\ app.pool /\ served.req.pool = "err"
    /\ served.req.authorization.some
    /\ Outcome.kind = "forward"

\* The policy Guard::database() builds: a database and nothing else.
DatabaseOnlyPolicy ==
    /\ guard.has_database.some /\ guard.has_database.v
    /\ ~guard.roles.some /\ ~guard.callback
    /\ ~guard.is_refresh_token /\ ~guard.is_web_token

\* C12: under a database-only policy, a request that is not OPTIONS and for
\* which the pool supplies a connection is forwarded downstream, the
\* Authorization header unread and no callback invoked.
C12_PassThrough ==
    (Handled /\ DatabaseOnlyPolicy /\ app.pool /\ served.req.pool = "ok") =>
        /\ Outcome.kind = "forward"
        /\ ~served.decision.header_read
        /\ ~served.decision.invoked

\* A GET with a Bearer header passed through a database-only policy.
C12_Witness ==
    /\ Handled /\ DatabaseOnlyPolicy /\ app.pool /\ served.req.pool = "ok"
    /\ served.req.authorization = [some |-> TRUE, v |-> "Bearer   abc123  "]
    /\ Outcome.kind = "forward"

\* The policy declares a non-empty roles list and no database requirement.
RolesWithoutDatabase ==
    /\ guard.roles.some /\ Len(guard.roles.v) > 0
    /\ (~guard.has_database.some \/ ~guard.has_database.v)

\* C13 as stated: with a non-empty roles list and has_database unset or
\* false, every request that is not OPTIONS is denied with the
\* database-unavailable response, shaped as in rule 2, and the callback is not
\* invoked.
C13_RolesNeedDatabase ==
    (Handled /\ RolesWithoutDatabase) =>
        /\ ~served.decision.invoked
        /\ Outcome.kind = "response"
        /\ IF guard.json_response \/ app.hbs = "none"
           THEN Outcome = database_connection
           ELSE Outcome.content_type = "text/html; charset=utf-8"

\* The callback was invoked and returned Err(reason).
CallbackFailed == served.done /\ served.decision.invoked /\ served.req.callback_result.kind = "err"

\* C14: when the callback returns Err(reason) the guard answers with a JSON
\* payload whose error is reason; status and code are 401 when reason
\* contains 'expired' in lower case and 400 otherwise.
C14_CallbackClassification ==
    CallbackFailed =>
        /\ Outcome.kind = "response"
        /\ Outcome.content_type = "application/json"
        /\ Outcome.error = served.req.callback_result.err
        /\ Outcome.status = Outcome.code
        /\ Outcome.status =
               (IF served.req.callback_result.err = "Your authentication token has expired"
                THEN 401 ELSE 400)

\* The callback failed with the expired reason and the guard answered 401.
C14_Witness ==
    /\ CallbackFailed
    /\ served.req.callback_result.err = "Your authentication token has expired"
    /\ Outcome.status = 401

\* Rules 2, 3 and 4 do not apply to the request under the registered pool.
NoEarlierRule ==
    /\ app.pool
    /\ ~(guard.has_database.some /\ guard.has_database.v /\ served.req.pool = "err")
    /\ ~(DatabaseOnlyPolicy /\ served.req.pool = "ok")
    /\ ~RolesWithoutDatabase

\* C15 as stated: with no callback, a request that is not OPTIONS and that
\* rules 2, 3 and 4 leave undecided is denied with the 400 'Invalid
\* authentication token' payload.
C15_NoCallbackDenies ==
    (Handled /\ ~guard.callback /\ NoEarlierRule) => Outcome = invalid_authentication_token

\* The Authorization header as the guard trims it.
HeaderText == trim_str(IF served.req.authorization.some THEN served.req.authorization.v ELSE "")

StartsWithBearer == Len(HeaderText) >= 6 /\ SubSeq(HeaderText, 1, 6) = "Bearer"

\* C16 as stated: the token handed to the callback is the trimmed text after
\* the prefix 'Bearer', and the empty string for a header that is absent or
\* does not start with 'Bearer'.
C16_BearerExtraction ==
    (served.done /\ served.decision.invoked) =>
        served.decision.token =
            (IF StartsWithBearer
             THEN trim_str(SubSeq(HeaderText, 7, Len(HeaderText)))
             ELSE "")

(***************************************************************************)
(* Failure behaviour of the Cipher                                         *)
(***************************************************************************)
\* The last call needs a key slot that the Cipher does not hold.
KeyAbsent ==
    \/ /\ last.op \in { "encrypt_master", "wrap_key", "decrypt_master", "decrypt_deep_hash" }
       /\ ~cipher.master.some
    \/ /\ last.op \in { "encrypt_web", "decrypt_web" }
       /\ ~cipher.web.some

\* C17 as stated: on a Cipher whose master or web key is absent, every
\* operation that needs the absent key returns an error result, for every
\* input.
C17_MissingKeysFail == KeyAbsent => last.out.kind = "err"

\* The variable holds base64url text of exactly KeyLen bytes.
WellFormedKey(value) ==
    /\ value.some
    /\ B64Decode(value.v).kind = "ok"
    /\ Len(B64Decode(value.v).val) = KeyLen

\* C18 as stated: Cipher::new returns an error result, and no Cipher, when
\* MASTER_KEY or WEB_KEY is absent, is not base64url or decodes to other than
\* 32 bytes.
C18_NewValidatesKeys ==
    (last.op = "new" /\ ~(WellFormedKey(env.MASTER_KEY) /\ WellFormedKey(env.WEB_KEY))) =>
        /\ last.out.kind = "err"
        /\ cipher = CipherDefault

\* The text is base64url and decodes to NonceLen bytes or fewer.
ShortPayload(text) ==
    /\ B64Decode(text).kind = "ok"
    /\ Len(B64Decode(text).val) <= NonceLen

\* The last call was a decrypt operation on a too-short payload: the text of
\* decrypt_master and decrypt_web, the content of decrypt_hash, the wrapped
\* hash of decrypt_deep_hash.
ShortCall ==
    \/ /\ last.op \in { "decrypt_master", "decrypt_web", "decrypt_hash" }
       /\ ShortPayload(last.arg)
    \/ /\ last.op = "decrypt_deep_hash"
       /\ ShortPayload(last.arg2)

\* C20 as stated: a base64url payload of 24 decoded bytes or fewer is
\* rejected with 'Invalid hash length', and nothing before that check panics.
C20_ShortPayloadRejected ==
    ShortCall => /\ last.out.kind = "err"
                 /\ last.out.err = "Invalid hash length"

(***************************************************************************)
(* The keys behind the web token                                           *)
(***************************************************************************)
\* C19 as stated: the web key in use is the one loaded at initialization, so
\* the web token generate_tokens issued is accepted by validate_web_token,
\* with the issued claims, whatever became of MASTER_KEY and WEB_KEY since.
C19_KeysLoadedOnce ==
    (plast.op = "validate_web_token" /\ plast.which = "web") => ReturnedIssuedClaims

(***************************************************************************)
(* Error values of the decrypt operations                                  *)
(***************************************************************************)
\* Stage 1 of decrypt_deep_hash, the recovery of the key from the wrapped
\* hash under the master key c.master, ends in an error.
Stage1Fails(c, hash) ==
    \/ B64Decode(hash).kind # "ok"
    \/ Len(B64Decode(hash).val) <= NonceLen
    \/ DeepUnsealed(<<>>, AeadDecrypt(c.master.v,
                              SubSeq(B64Decode(hash).val, 1, NonceLen),
                              SubSeq(B64Decode(hash).val, NonceLen + 1,
                                     Len(B64Decode(hash).val)))).err
           = "Unable to decrypt text"

\* decrypt_deep_hash(content, hash) passes stage 1 and ends in an error.
Stage2Fails(c, content, hash) ==
    /\ ~Stage1Fails(c, hash)
    /\ decrypt_deep_hash(c, content, hash).kind = "err"

\* C21 as stated: an error of stage 1 of decrypt_deep_hash differs from
\* every error of stage 2, so the result tells which stage failed.
C21_StagesDistinguishable ==
    (/\ last.op = "decrypt_deep_hash"
     /\ cipher.master.some
     /\ last.out.kind = "err"
     /\ Stage1Fails(cipher, last.arg2))
    => \A cand \in Candidates, w \in WrappedCandidates :
           Stage2Fails(cipher, cand.text, w.text)
               => decrypt_deep_hash(cipher, cand.text, w.text).err # last.out.err

\* The last call was a decrypt operation on a payload that is not base64url,
\* its other input being in order: the hash of decrypt_hash a key of KeyLen
\* bytes, the wrapped hash of decrypt_deep_hash one that passes stage 1.
MalformedCall ==
    /\ last.op \in DecryptOps
    /\ B64Decode(last.arg).kind # "ok"
    /\ last.op = "decrypt_hash" =>
           (B64Decode(last.arg2).kind = "ok" /\ Len(B64Decode(last.arg2).val) = KeyLen)
    /\ last.op = "decrypt_deep_hash" =>
           (cipher.master.some /\ ~Stage1Fails(cipher, last.arg2))

\* C22 as stated: every decrypt operation given a payload that is not valid
\* base64url fails with 'Unable to decode base64 encoding'.
C22_MalformedIsDecodeError ==
    MalformedCall => /\ last.out.kind = "err"
                     /\ last.out.err = "Unable to decode base64 encoding"

(***************************************************************************)
(* Repeated validation and reconfiguration                                 *)
(***************************************************************************)
\* C23: a token string that validate_access_token (validate_refresh_token)
\* has rejected is rejected by every later validation by the same operation,
\* the configuration being unchanged.
C23_NoReturnToValid ==
    plast.op \in { "validate_access_token_again", "validate_refresh_token_again" }
        => plast.out.kind = "err"

\* An access token was rejected as expired, and again at a later instant.
C23_Witness ==
    /\ plast.op = "validate_access_token_again"
    /\ plast.which = "access"
    /\ token.v.issuer = paseto
    /\ plast.at > AccessExp + 1
    /\ ErrIs("Your authentication token has expired")

\* The six fields reconfigure copies.
PerKindFields(p) ==
    << p.access_token_key_unit, p.access_token_key_time, p.access_token_key_signing,
       p.refresh_token_key_unit, p.refresh_token_key_time, p.refresh_token_key_signing >>

Positions(what) ==
    { i \in 1..Len(trail(served.decision)) : trail(served.decision)[i] = what }

\* C24: the downstream service is called exactly once when the request is
\* allowed and never when it is denied; the callback is invoked at most once;
\* when the callback succeeds its claims are inserted into the request
\* extensions before the downstream service is called.
C24_AllowDenyOrdered ==
    served.done =>
        /\ Outcome.kind = "forward" => Cardinality(Positions("service.call")) = 1
        /\ Outcome.kind = "response" => Positions("service.call") = {}
        /\ Cardinality(Positions("callback")) <= 1
        /\ (served.decision.invoked /\ served.req.callback_result.kind = "ok") =>
               /\ Outcome = Forward(served.req.callback_result.claims)
               /\ \E i \in Positions("extensions.insert") :
                      \A j \in Positions("service.call") : i < j

\* The callback returned claims and the request went downstream with them.
C24_Witness ==
    /\ served.done
    /\ served.decision.invoked
    /\ served.req.callback_result.kind = "ok"
    /\ Outcome = Forward("claims")
    /\ Positions("extensions.insert") # {}


(***************************************************************************)
(* Payload (payloads.rs).  A Payload is a value; respond_to turns it into  *)
(* an HTTP response, the canned constructors build a response directly,   *)
(* and Display formats it.  data and errors stay null in the model.       *)
(***************************************************************************)
PayloadCodes == { 200, 201, 400, 401, 403, 404, 500 }

Payloads ==
    [code : { NoCode } \cup { Some(n) : n \in PayloadCodes },
     challenge : { "", "c" }, message : { "", "m" }, error : { "", "e" }]

\* serde_json::to_string(&payload): a field is written unless its
\* skip_serializing_if holds (None, empty string).
payload_to_string(self) ==
    [fields |-> (IF self.code.some THEN { "code" } ELSE {})
                \cup (IF self.challenge # "" THEN { "challenge" } ELSE {})
                \cup (IF self.message # "" THEN { "message" } ELSE {})
                \cup (IF self.error # "" THEN { "error" } ELSE {}),
     code |-> IF self.code.some THEN self.code.v ELSE 0,
     challenge |-> self.challenge, message |-> self.message, error |-> self.error]

\* <Payload as Responder>::respond_to
respond_to(self) ==
    LET code == IF self.code.some THEN self.code.v
                ELSE IF self.challenge # "" THEN 200
                ELSE 400
        status == IF code = 200 THEN 200
                  ELSE IF code = 401 THEN 401
                  ELSE IF code = 404 THEN 404
                  ELSE IF code = 500 THEN 500
                  ELSE 400
    IN  [kind |-> "response", status |-> status,
         content_type |-> "application/json", body |-> payload_to_string(self)]

\* Payload::permission()
permission ==
    JsonResponse(400, 400, "Your account does not have enough permission to perform this task")

\* Payload::expired_token(): the payload carries 401, the builder is
\* HttpResponse::BadRequest().
expired_token == JsonResponse(400, 401, "Your authentication token has expired")

\* Payload::invalid_server_config()
invalid_server_config ==
    JsonResponse(400, 400, "Invalid server configuration. Please contact your server administrator for more info")

\* Payload::invalid_refresh_token()
invalid_refresh_token == JsonResponse(400, 400, "Invalid refresh token")

\* Payload::invalid_web_token()
invalid_web_token == JsonResponse(400, 400, "Invalid web token")

CannedNames ==
    { "permission", "database_connection", "expired_token", "invalid_server_config",
      "invalid_authentication_token", "invalid_refresh_token", "invalid_web_token" }

canned(name) ==
    CASE name = "permission" -> permission
      [] name = "database_connection" -> database_connection
      [] name = "expired_token" -> expired_token
      [] name = "invalid_server_config" -> invalid_server_config
      [] name = "invalid_authentication_token" -> invalid_authentication_token
      [] name = "invalid_refresh_token" -> invalid_refresh_token
      [] name = "invalid_web_token" -> invalid_web_token

\* The Payload a canned constructor serializes into its body.
canned_payload(name) ==
    [code |-> Some(canned(name).code), challenge |-> "", message |-> "",
     error |-> canned(name).error]

\* Stack frames available to a formatting call before the stack is exhausted.
StackFrames == 3

\* <Payload as Display>::fmt: write!(f, "{}", self) formats self through
\* Display, that is, enters fmt again on the same value, one frame deeper,
\* before anything is written to f.
fmt(self, frames) == [self |-> self, frames |-> frames + 1, written |-> << >>]

Overflow == [kind |-> "abort", val |-> << >>, err |-> "stack overflow"]

InitPayload ==
    /\ payload \in Payloads
    /\ answer = NoAnswer
    /\ env = GoodEnv
    /\ cipher = CipherDefault
    /\ box = None
    /\ wrapped = None
    /\ last = Call("init", Direct(<<>>), <<>>, NoCall)
    /\ PasetoIdle
    /\ GuardIdle
    /\ SseIdle
    /\ WsIdle

RespondTo ==
    /\ answer.op = "none"
    /\ answer' = [op |-> "respond_to", frames |-> 0, out |-> respond_to(payload)]
    /\ UNCHANGED << env, payload, cipherVars, pasetoVars, guardVars, sseVars, wsVars >>

Canned ==
    /\ answer.op = "none"
    /\ \E name \in CannedNames :
        /\ payload' = canned_payload(name)
        /\ answer' = [op |-> name, frames |-> 0, out |-> canned(name)]
    /\ UNCHANGED << env, cipherVars, pasetoVars, guardVars, sseVars, wsVars >>

\* format!("{}", payload) enters fmt.
FmtCall ==
    /\ answer.op = "none"
    /\ answer' = [op |-> "fmt", frames |-> fmt(payload, 0).frames, out |-> NoCall]
    /\ UNCHANGED << env, payload, cipherVars, pasetoVars, guardVars, sseVars, wsVars >>

\* The pending fmt runs its body.
FmtRecurse ==
    /\ answer.op = "fmt"
    /\ answer.out.kind = "none"
    /\ answer.frames < StackFrames
    /\ answer' = [answer EXCEPT !.frames = fmt(payload, answer.frames).frames]
    /\ UNCHANGED << env, payload, cipherVars, pasetoVars, guardVars, sseVars, wsVars >>

\* No frame is left for the next fmt: the process is aborted.
FmtExhaust ==
    /\ answer.op = "fmt"
    /\ answer.out.kind = "none"
    /\ answer.frames = StackFrames
    /\ answer' = [answer EXCEPT !.out = Overflow]
    /\ UNCHANGED << env, payload, cipherVars, pasetoVars, guardVars, sseVars, wsVars >>

NextPayload ==
    \/ RespondTo
    \/ Canned
    \/ FmtCall
    \/ FmtRecurse
    \/ FmtExhaust

SpecPayload == InitPayload /\ [][NextPayload]_vars

\* C25: respond_to answers 200, 401, 404 or 500 when the payload's code is
\* that value and 400 for any other code, 200 for a payload with no code and
\* a non-empty challenge; every canned constructor returns a response whose
\* HTTP status equals the code in its JSON body, the expired response being
\* 401 and the invalid ones 400.
C25_StatusFollowsCode ==
    /\ answer.op = "respond_to" =>
        answer.out.status =
            IF payload.code.some
            THEN (IF payload.code.v \in { 200, 401, 404, 500 } THEN payload.code.v ELSE 400)
            ELSE IF payload.challenge # "" THEN 200 ELSE 400
    /\ answer.op \in CannedNames =>
        /\ answer.out.status = answer.out.code
        /\ answer.op = "expired_token" => answer.out.status = 401
        /\ answer.op \in { "invalid_server_config", "invalid_authentication_token",
                           "invalid_refresh_token", "invalid_web_token" } =>
            answer.out.status = 400

\* C30: formatting a Payload through Display comes to an end with a rendering
\* written: a formatting call that is over returned Ok with a non-empty text.
C30_DisplayTerminates ==
    (answer.op = "fmt" /\ answer.out.kind # "none") =>
        answer.out.kind = "ok" /\ answer.out.val # << >>


(***************************************************************************)
(* Broadcaster (sse/broadcaster.rs).  One Broadcaster is shared behind an  *)
(* Arc; every method takes the lock for one statement only, so a method    *)
(* is a sequence of steps between which other calls run.  The pings of one *)
(* remove_stale_clients run are taken together.  A run ends with the       *)
(* broadcast that is examined.                                             *)
(***************************************************************************)
Channels == { "Global", "room1" }

\* System::new().event
system_event == "message"

Events == { Absent, Some(""), Some("update") }

MessageChannels == { Absent, Some(""), Some("room1") }

MessageData == { Absent, Some("hi") }

Messages == [channel : MessageChannels, event : Events, data : MessageData]

Range(seq) == { seq[i] : i \in DOMAIN seq }

\* HashMap::insert
insert(map, k, v) == [x \in DOMAIN map \cup { k } |-> IF x = k THEN v ELSE map[x]]

\* The copy of the map with the sender pushed on its channel's vector: the
\* match of new_client, up to the value it stores.
with_sender(copy, channel, sender) ==
    IF channel \notin DOMAIN copy
    THEN insert(copy, channel, << sender >>)
    ELSE insert(copy, channel, Append(copy[channel], sender))

\* The loop of remove_stale_clients over a copy of the map: a sender is kept
\* where its ping was accepted, a channel where it kept a sender.
ok_clients(copy, accepting) ==
    LET ok_senders(c) == SelectSeq(copy[c], LAMBDA sender : sender \in accepting)
    IN  [c \in { x \in DOMAIN copy : Len(ok_senders(x)) > 0 } |-> ok_senders(c)]

\* The channel broadcast looks up.
broadcast_channel(params) ==
    LET default_channel == "Global"
    IN  IF ~params.channel.some THEN default_channel
        ELSE IF params.channel.v = "" THEN default_channel
        ELSE default_channel

\* The event name broadcast sends.
broadcast_event(params) ==
    LET default_event == system_event
    IN  IF ~params.event.some THEN default_event
        ELSE IF params.event.v = "" THEN default_event
        ELSE default_event

\* serde_json::to_string(&Data { content: Some(text), .. })
data_to_string(text) == "{\"content\":\"" \o text \o "\"}"

broadcast_data(params) == IF params.data.some THEN data_to_string(params.data.v) ELSE ""

\* Broadcaster::broadcast: one send per sender under the channel looked up.
broadcast(map, params) ==
    IF broadcast_channel(params) \in DOMAIN map
    THEN { [to |-> sender, event |-> broadcast_event(params), data |-> broadcast_data(params)] :
           sender \in Range(map[broadcast_channel(params)]) }
    ELSE {}

InitSse ==
    /\ SseIdle
    /\ env = GoodEnv
    /\ cipher = CipherDefault
    /\ box = None
    /\ wrapped = None
    /\ last = Call("init", Direct(<<>>), <<>>, NoCall)
    /\ PasetoIdle
    /\ GuardIdle
    /\ PayloadIdle
    /\ WsIdle

Broadcasting == ~delivered.done

\* new_client up to the copy of the map: the channel is created, the
\* connected message sent, the map cloned under the lock.
NewClientCopy ==
    /\ Broadcasting
    /\ \E k \in Callers, channel \in Channels :
        /\ calls[k].pc = "idle"
        /\ calls' = [calls EXCEPT ![k] = [pc |-> "copied", channel |-> channel, copy |-> clients]]
        /\ live' = live \cup { k }
    /\ UNCHANGED << env, clients, sweep, delivered, cipherVars, pasetoVars, guardVars,
                    payloadVars, wsVars >>

\* new_client from the match on: the changed copy replaces the map.
NewClientStore ==
    /\ Broadcasting
    /\ \E k \in Callers :
        /\ calls[k].pc = "copied"
        /\ clients' = with_sender(calls[k].copy, calls[k].channel, k)
        /\ calls' = [calls EXCEPT ![k] = [pc |-> "done", channel |-> calls[k].channel,
                                          copy |-> EmptyMap]]
    /\ UNCHANGED << env, live, sweep, delivered, cipherVars, pasetoVars, guardVars,
                    payloadVars, wsVars >>

\* The client of a finished new_client call goes away: its stream is dropped.
Disconnect ==
    /\ Broadcasting
    /\ \E k \in live :
        /\ calls[k].pc = "done"
        /\ live' = live \ { k }
    /\ UNCHANGED << env, clients, calls, sweep, delivered, cipherVars, pasetoVars, guardVars,
                    payloadVars, wsVars >>

\* remove_stale_clients, first statement: the map is cloned under the lock.
SweepCopy ==
    /\ Broadcasting
    /\ sweep.pc = "idle"
    /\ sweep' = [pc |-> "copied", copy |-> clients, ok_clients |-> EmptyMap]
    /\ UNCHANGED << env, clients, live, calls, delivered, cipherVars, pasetoVars, guardVars,
                    payloadVars, wsVars >>

\* remove_stale_clients, the loop: every sender of the copy is pinged.
SweepPing ==
    /\ Broadcasting
    /\ sweep.pc = "copied"
    /\ sweep' = [pc |-> "pinged", copy |-> sweep.copy,
                 ok_clients |-> ok_clients(sweep.copy, live)]
    /\ UNCHANGED << env, clients, live, calls, delivered, cipherVars, pasetoVars, guardVars,
                    payloadVars, wsVars >>

\* remove_stale_clients, last statement: ok_clients replaces the map.
SweepStore ==
    /\ Broadcasting
    /\ sweep.pc = "pinged"
    /\ clients' = sweep.ok_clients
    /\ sweep' = NotSweeping
    /\ UNCHANGED << env, live, calls, delivered, cipherVars, pasetoVars, guardVars,
                    payloadVars, wsVars >>

Broadcast ==
    /\ Broadcasting
    /\ \E params \in Messages :
        delivered' = [done |-> TRUE, params |-> params, sent |-> broadcast(clients, params)]
    /\ UNCHANGED << env, clients, live, calls, sweep, cipherVars, pasetoVars, guardVars,
                    payloadVars, wsVars >>

NextSse ==
    \/ NewClientCopy
    \/ NewClientStore
    \/ Disconnect
    \/ SweepCopy
    \/ SweepPing
    \/ SweepStore
    \/ Broadcast

SpecSse == InitSse /\ [][NextSse]_vars

Registered(k) ==
    /\ calls[k].channel \in DOMAIN clients
    /\ k \in Range(clients[calls[k].channel])

\* C26: under every interleaving of new_client calls and remove_stale_clients
\* runs, a client registered by a finished new_client call whose sender
\* still accepts messages is in the client list, under its channel; so two
\* concurrent new_client calls both end up registered and a sweep removes
\* only senders whose ping failed.
C26_RegistrationsKept ==
    \A k \in Callers : (calls[k].pc = "done" /\ k \in live) => Registered(k)

\* The channel and the event of a message as the claim words them.
MessageChannel(params) ==
    IF params.channel.some /\ params.channel.v # "" THEN params.channel.v ELSE "Global"

MessageEvent(params) ==
    IF params.event.some /\ params.event.v # "" THEN params.event.v ELSE system_event

\* C27: broadcast sends the message to exactly the senders registered under
\* the message's channel (params.channel when present and non-empty, Global
\* otherwise), with the message's event name when present and non-empty and
\* the system default event otherwise; other senders receive nothing.
C27_ChannelScoped ==
    delivered.done =>
        /\ { d.to : d \in delivered.sent } =
              IF MessageChannel(delivered.params) \in DOMAIN clients
              THEN Range(clients[MessageChannel(delivered.params)])
              ELSE {}
        /\ \A d \in delivered.sent : d.event = MessageEvent(delivered.params)


(***************************************************************************)
(* Chat server (ws/server.rs and its handlers).  Server is an actor: it    *)
(* handles one message at a time, each handler running to its end.  Ids   *)
(* are random usize values; a small id space makes draws collide.  A      *)
(* recipient refuses a message once its mailbox is closed.                *)
(***************************************************************************)
RoomNames == { "main", "side" }

Recipients == { "c1", "c2" }

IdSpace == { 0, 1, 2 }

\* A variant of add_client_to_room that inserts under the first id.
add_client_to_room_first_id(self, room_name, first, retry, client) ==
    [rooms |-> insert(self, room_name,
                      insert(IF room_name \in DOMAIN self THEN self[room_name] ELSE EmptyMap,
                             first, client)),
     id |-> first]

\* Server::take_room: mem::take leaves an empty room behind.
take_room(self, room_name) ==
    IF room_name \in DOMAIN self
    THEN [some |-> TRUE, room |-> self[room_name], rooms |-> insert(self, room_name, EmptyMap)]
    ELSE [some |-> FALSE, room |-> EmptyMap, rooms |-> self]

\* Server::add_client_to_room.  first is id.unwrap_or_else(rand::random),
\* retry the draw on which the loop breaks.
add_client_to_room(self, room_name, first, retry, client) ==
    IF room_name \in DOMAIN self
    THEN LET id == IF first \in DOMAIN self[room_name] THEN retry ELSE first
         IN  [rooms |-> insert(self, room_name, insert(self[room_name], id, client)),
              id |-> id]
    ELSE [rooms |-> insert(self, room_name, insert(EmptyMap, first, client)), id |-> first]

\* The loop of send_chat_message over the drained room: a client whose
\* try_send succeeded is added back with Some(id).
RECURSIVE drain(_, _, _, _, _)
drain(self, room_name, room, ids, refusing) ==
    IF ids = {} THEN self
    ELSE LET id == CHOOSE i \in ids : TRUE
         IN  drain(IF room[id] \notin refusing
                   THEN add_client_to_room(self, room_name, id, id, room[id]).rooms
                   ELSE self,
                   room_name, room, ids \ { id }, refusing)

\* Server::send_chat_message
send_chat_message(self, room_name, refusing) ==
    LET room == take_room(self, room_name)
    IN  IF ~room.some THEN [rooms |-> self, some |-> FALSE]
        ELSE [rooms |-> drain(room.rooms, room_name, room.room, DOMAIN room.room, refusing),
              some |-> TRUE]

\* HashMap::remove
remove(map, k) == [x \in DOMAIN map \ { k } |-> map[x]]

\* <Server as Handler<LeaveRoom>>::handle
leave_room(self, room_name, id) ==
    IF room_name \in DOMAIN self
    THEN insert(self, room_name, remove(self[room_name], id))
    ELSE self

InitWs ==
    /\ WsIdle
    /\ env = GoodEnv
    /\ cipher = CipherDefault
    /\ box = None
    /\ wrapped = None
    /\ last = Call("init", Direct(<<>>), <<>>, NoCall)
    /\ PasetoIdle
    /\ GuardIdle
    /\ PayloadIdle
    /\ SseIdle

RoomOf(self, room_name) == IF room_name \in DOMAIN self THEN self[room_name] ELSE EmptyMap

\* <Server as Handler<JoinRoom>>::handle: add_client_to_room with None, then
\* the join message to the room.
JoinRoom ==
    /\ \E room_name \in RoomNames, client \in Recipients, first \in IdSpace :
        /\ IdSpace \ DOMAIN RoomOf(rooms, room_name) # {}
        /\ \E retry \in (IF first \in DOMAIN RoomOf(rooms, room_name)
                         THEN IdSpace \ DOMAIN RoomOf(rooms, room_name)
                         ELSE { first }) :
            LET added == add_client_to_room(rooms, room_name, first, retry, client)
            IN  /\ rooms' = send_chat_message(added.rooms, room_name, gone).rooms
                /\ wlast' = [op |-> "JoinRoom", room |-> room_name, id |-> added.id]
    /\ UNCHANGED << env, gone, cipherVars, pasetoVars, guardVars, payloadVars, sseVars >>

LeaveRoom ==
    /\ \E room_name \in RoomNames, id \in IdSpace :
        /\ rooms' = leave_room(rooms, room_name, id)
        /\ wlast' = [op |-> "LeaveRoom", room |-> room_name, id |-> id]
    /\ UNCHANGED << env, gone, cipherVars, pasetoVars, guardVars, payloadVars, sseVars >>

\* <Server as Handler<SendMessage>>::handle; the sender's id is not used.
SendMessage ==
    /\ \E room_name \in RoomNames :
        /\ rooms' = send_chat_message(rooms, room_name, gone).rooms
        /\ wlast' = [op |-> "SendMessage", room |-> room_name, id |-> -1]
    /\ UNCHANGED << env, gone, cipherVars, pasetoVars, guardVars, payloadVars, sseVars >>

\* A recipient's mailbox is closed: try_send to it fails from now on.
MailboxClosed ==
    /\ \E client \in Recipients \ gone : gone' = gone \cup { client }
    /\ UNCHANGED << env, rooms, wlast, cipherVars, pasetoVars, guardVars, payloadVars, sseVars >>

NextWs ==
    \/ JoinRoom
    \/ LeaveRoom
    \/ SendMessage
    \/ MailboxClosed

SpecWs == InitWs /\ [][NextWs]_vars

\* The clients of a room whose try_send succeeds, each under its id.
Accepting(room) == [i \in { x \in DOMAIN room : room[x] \notin gone } |-> room[i]]

\* The step is the handling of the message op: every handler leaves the
\* mailboxes as they are and records itself, MailboxClosed closes one.
Handles(op) == gone' = gone /\ wlast'.op = op

OtherRoomsSame(room_name) ==
    /\ DOMAIN rooms' \ { room_name } = DOMAIN rooms \ { room_name }
    /\ \A r \in DOMAIN rooms \ { room_name } : rooms'[r] = rooms[r]

\* C28: in every JoinRoom step the id add_client_to_room returned was not in
\* the room before, and the clients already there that accept the join
\* message are still there under their ids; in every SendMessage step on an
\* existing room the room afterwards holds exactly the clients whose
\* try_send succeeded, each under its original id; LeaveRoom removes at most
\* the id it names; other rooms are unchanged.
C28_MembershipPreserved ==
    [][ /\ Handles("JoinRoom") =>
            LET before == RoomOf(rooms, wlast'.room)
            IN  /\ wlast'.id \notin DOMAIN before
                /\ wlast'.room \in DOMAIN rooms'
                /\ \E client \in Recipients :
                      rooms'[wlast'.room] =
                          Accepting(insert(before, wlast'.id, client))
                /\ \A i \in DOMAIN Accepting(before) :
                      /\ i \in DOMAIN rooms'[wlast'.room]
                      /\ rooms'[wlast'.room][i] = before[i]
                /\ OtherRoomsSame(wlast'.room)
        /\ Handles("SendMessage") =>
            /\ wlast'.room \in DOMAIN rooms =>
                  /\ wlast'.room \in DOMAIN rooms'
                  /\ rooms'[wlast'.room] = Accepting(rooms[wlast'.room])
            /\ wlast'.room \notin DOMAIN rooms => rooms' = rooms
            /\ OtherRoomsSame(wlast'.room)
        /\ Handles("LeaveRoom") =>
            /\ wlast'.room \in DOMAIN rooms =>
                  rooms'[wlast'.room] = remove(rooms[wlast'.room], wlast'.id)
            /\ OtherRoomsSame(wlast'.room)
      ]_vars

\* A JoinRoom filled a room: the id it returned sits beside the two that
\* were there, held by another recipient, while another room has members.
C28_Witness ==
    /\ wlast.op = "JoinRoom"
    /\ wlast.room \in DOMAIN rooms
    /\ DOMAIN rooms[wlast.room] = IdSpace
    /\ \E i \in IdSpace : rooms[wlast.room][i] # rooms[wlast.room][wlast.id]
    /\ \E r \in DOMAIN rooms : r # wlast.room /\ DOMAIN rooms[r] # {}

====
